---- MODULE Spec2Model ----
(***************************************************************************)
(* Multi-year average cache-and-compute layer of the CMIP6 atlas API       *)
(* (src/api/climate_api.py) over the tables created by                     *)
(* src/scripts/seed_climate_metrics.py.                                    *)
(*                                                                         *)
(* Granularity: one action per request step that touches the database.     *)
(* Every request opens its own connection (get_db_connection), so requests *)
(* served by different API workers interleave at these steps.              *)
(*                                                                         *)
(* Numbers.  climate_data.value and climate_averages.avg_value are         *)
(* NUMERIC(12,4): they are modelled as integers counting units of 0.0001.  *)
(* A Python float (the result of float(AVG(value)), the values held by the *)
(* handlers and returned in responses) carries more digits than the        *)
(* column: it is modelled as an integer counting 1/Fine of such a unit.    *)
(* Sample values are non-negative in the model.                            *)
(*                                                                         *)
(* Time.  CURRENT_TIMESTAMP is the start time of the current transaction;  *)
(* psycopg2 opens a transaction at the first execute after connect or      *)
(* commit.  clock is the latest start time given to a transaction that     *)
(* stays open after the step that starts it (the others end before         *)
(* anything reads their start time); tx[w] is the start time of worker w's *)
(* open transaction (0: none open).                                        *)
(***************************************************************************)
EXTENDS Integers, Naturals, Sequences, FiniteSets, TLC

VARIABLES
    climate_data,      \* table climate_data: set of rows
    climate_averages,  \* table climate_averages: set of rows
    clock,             \* latest transaction start time
    pc,                \* pc[w]: position of worker w's request handler
    req,               \* req[w]: parameters of the request being handled
    tx,                \* tx[w]: start time of w's open transaction, 0 if none
    loc,               \* loc[w]: local variables of the handler
    resp,              \* resp[w]: the last response worker w produced
    put_log,           \* history: the committed upserts, in commit order
    startup,           \* lifespan: the startup of the API process and its cache
    relations,         \* the tables and indexes the database holds
    seeder             \* how the last run of the seeding script went

vars ==
    <<climate_data, climate_averages, clock, pc, req, tx, loc, resp, put_log, startup,
      relations, seeder>>

----------------------------------------------------------------------------
(* Bounds of the model *)

MaxValue == 1      \* sample values range over 0..MaxValue (units of 0.0001)
MaxClock == 2      \* transaction start times in one behaviour

(* Program constants *)

MinYear == 1991    \* Query(..., ge=1991, ...)
MaxYear == 2100    \* Query(..., le=2100)
max_retries == 10  \* lifespan: max_retries = 10
retry_delay_0 == 2 \* lifespan: retry_delay = 2
MaxDelay == 30     \* lifespan: min(retry_delay * 1.5, 30)
Fine == 1000       \* float resolution: 1/Fine of a NUMERIC(12,4) unit
Unit == 10000      \* NUMERIC(12,4) units in 1.0

Workers == {"w1", "w2"}
Regions == {1, 2}
(* the cells (region_id, year) the seeded files hold values for *)
SeededCells == {<<1, 2020>>, <<1, 2021>>, <<2, 2020>>}
(* what requests ask for: <<metric_code, scenario_code, start_year, end_year>>;
   two that pass the checks of the handlers, and one that fails each check *)
GoodTargets ==
    {<<"annual_temp", "ssp245", 2020, 2021>>, <<"annual_temp", "ssp245", 2020, 2020>>}
BadTargets ==
    {<<"annual_temp", "ssp245", 1990, 2020>>, <<"annual_temp", "ssp245", 2020, 2101>>,
     <<"annual_temp", "ssp245", 2021, 2020>>, <<"unknown", "ssp245", 2020, 2021>>,
     <<"annual_temp", "unknown", 2020, 2021>>}
SampleValues == 0..MaxValue

(* seed_reference_data: the catalog the API loads into cache.metrics and
   cache.scenarios *)
Metrics ==
    [annual_precip |-> [id |-> 1, unit |-> "mm"],
     annual_temp   |-> [id |-> 2, unit |-> "°C"]]
Scenarios == [ssp245 |-> [id |-> 1]]

(* region_ids: list[int] | None.  None is <<>>, a list is <<set of its ids>>;
   the handler takes the empty list as a filter that no region passes *)
NoFilter == <<>>
FilterInputs == {NoFilter} \cup {<<s>> : s \in SUBSET Regions}

(* A nullable column value: <<>> is NULL, <<v>> is the value v *)
NULL == <<>>

----------------------------------------------------------------------------
(* Generic helpers *)

RECURSIVE SumValues(_)
SumValues(rows) ==
    IF rows = {} THEN 0
    ELSE LET r == CHOOSE x \in rows : TRUE
         IN r.value[1] + SumValues(rows \ {r})

RECURSIVE SeqSum(_)
SeqSum(s) == IF s = <<>> THEN 0 ELSE Head(s) + SeqSum(Tail(s))

SeqMin(s) == CHOOSE x \in {s[i] : i \in DOMAIN s} :
                 \A i \in DOMAIN s : x <= s[i]
SeqMax(s) == CHOOSE x \in {s[i] : i \in DOMAIN s} :
                 \A i \in DOMAIN s : x >= s[i]

(* all orders in which the rows of a GROUP BY result can arrive *)
Orders(S) == {o \in [1..Cardinality(S) -> S] :
                 \A i, j \in DOMAIN o : i # j => o[i] # o[j]}

----------------------------------------------------------------------------
(* Unit conversion *)

celsius_to_fahrenheit(celsius) == (celsius * 9) \div 5 + 32 * Unit * Fine

mm_to_inches(mm) == (mm * 10) \div 254

(* convert_to_american_units(value, unit)[0]; every unit of the catalog takes
   one of the two converting branches or none *)
convert_to_american_units(value, unit) ==
    IF unit = "°C" THEN celsius_to_fahrenheit(value)
    ELSE IF unit = "mm" THEN mm_to_inches(value)
    ELSE value

----------------------------------------------------------------------------
(* Numeric conversions between Python floats and NUMERIC(12,4) *)

(* a float written to avg_value NUMERIC(12,4): rounded to 4 decimals *)
ToNumeric(f) == (2 * f + Fine) \div (2 * Fine)

(* float(row['avg_value']) *)
ToFloat(n) == n * Fine

----------------------------------------------------------------------------
(* Queries and statements on the two tables *)

RowKey(row) ==
    <<row.region_id, row.metric_id, row.scenario_id, row.start_year, row.end_year>>

(* get_cached_average: the row of the key, or None; an optional value is the
   set of at most one element *)
(* get_cached_average with start_year bound to the end_year placeholder too *)
get_cached_average_start_twice(averages, region_id, metric_id, scenario_id, start_year, end_year) ==
    LET found == {row \in averages :
                    RowKey(row) = <<region_id, metric_id, scenario_id, start_year, start_year>>}
    IN IF found = {} THEN {}
       ELSE LET row == CHOOSE r \in found : TRUE
            IN {[avg_value |-> row.avg_value,
                 data_points_count |-> row.data_points_count,
                 computed_at |-> row.computed_at]}

get_cached_average(averages, region_id, metric_id, scenario_id, start_year, end_year) ==
    LET found == {row \in averages :
                    RowKey(row) = <<region_id, metric_id, scenario_id, start_year, end_year>>}
    IN IF found = {} THEN {}
       ELSE LET row == CHOOSE r \in found : TRUE
            IN {[avg_value |-> row.avg_value,
                 data_points_count |-> row.data_points_count,
                 computed_at |-> row.computed_at]}

(* yearly_data without the condition on cd.year *)
yearly_data_any_year(data, regions, metric_id, scenario_id, start_year, end_year) ==
    {cd \in data : /\ cd.region_id \in regions
                   /\ cd.metric_id = metric_id
                   /\ cd.scenario_id = scenario_id
                   /\ cd.value # NULL}

(* the rows the CTE yearly_data selects *)
yearly_data(data, regions, metric_id, scenario_id, start_year, end_year) ==
    {cd \in data : /\ cd.region_id \in regions
                   /\ cd.metric_id = metric_id
                   /\ cd.scenario_id = scenario_id
                   /\ cd.year >= start_year /\ cd.year <= end_year
                   /\ cd.value # NULL}

(* float(AVG(value)) over a non-empty set of rows *)
AvgValue(rows) == (SumValues(rows) * Fine) \div Cardinality(rows)

(* compute_average without the test for an empty result *)
compute_average_unchecked(data, region_id, metric_id, scenario_id, start_year, end_year) ==
    LET rows == yearly_data(data, {region_id}, metric_id, scenario_id, start_year, end_year)
    IN IF rows # {}
       THEN {<<AvgValue(rows), Cardinality(rows)>>}
       ELSE {<<0, 0>>}

(* compute_average: <<avg_value, data_points_count>> in a set, or None *)
compute_average(data, region_id, metric_id, scenario_id, start_year, end_year) ==
    LET rows == yearly_data(data, {region_id}, metric_id, scenario_id, start_year, end_year)
    IN IF rows # {} /\ Cardinality(rows) > 0
       THEN {<<AvgValue(rows), Cardinality(rows)>>}
       ELSE {}

(* store_computed_average as a plain INSERT, without ON CONFLICT *)
store_computed_average_plain_insert(averages, region_id, metric_id, scenario_id, start_year, end_year, avg_value, data_points_count, now) ==
    averages \cup {[region_id |-> region_id, metric_id |-> metric_id,
                    scenario_id |-> scenario_id,
                    start_year |-> start_year, end_year |-> end_year,
                    avg_value |-> ToNumeric(avg_value),
                    data_points_count |-> data_points_count,
                    computed_at |-> now]}

(* store_computed_average with ON CONFLICT DO NOTHING *)
store_computed_average_do_nothing(averages, region_id, metric_id, scenario_id, start_year, end_year, avg_value, data_points_count, now) ==
    IF \E row \in averages :
          RowKey(row) = <<region_id, metric_id, scenario_id, start_year, end_year>>
    THEN averages
    ELSE store_computed_average_plain_insert(averages, region_id, metric_id,
             scenario_id, start_year, end_year, avg_value, data_points_count, now)

(* store_computed_average whose DO UPDATE leaves computed_at out *)
store_computed_average_keep_stamp(averages, region_id, metric_id, scenario_id, start_year, end_year, avg_value, data_points_count, now) ==
    LET key == <<region_id, metric_id, scenario_id, start_year, end_year>>
        conflict == {row \in averages : RowKey(row) = key}
    IN IF conflict = {}
       THEN store_computed_average_plain_insert(averages, region_id, metric_id,
                scenario_id, start_year, end_year, avg_value, data_points_count, now)
       ELSE (averages \ conflict) \cup
            {[row EXCEPT !.avg_value = ToNumeric(avg_value),
                         !.data_points_count = data_points_count] : row \in conflict}

(* store_computed_average with start_year bound to the end_year placeholder
   too *)
store_computed_average_start_twice(averages, region_id, metric_id, scenario_id, start_year, end_year, avg_value, data_points_count, now) ==
    LET key == <<region_id, metric_id, scenario_id, start_year, start_year>>
        conflict == {row \in averages : RowKey(row) = key}
    IN IF conflict = {}
       THEN store_computed_average_plain_insert(averages, region_id, metric_id,
                scenario_id, start_year, start_year, avg_value, data_points_count, now)
       ELSE (averages \ conflict) \cup
            {[row EXCEPT !.avg_value = ToNumeric(avg_value),
                         !.data_points_count = data_points_count,
                         !.computed_at = now] : row \in conflict}

(* store_computed_average: INSERT ... ON CONFLICT (key) DO UPDATE, then
   commit; now is CURRENT_TIMESTAMP *)
store_computed_average(averages, region_id, metric_id, scenario_id, start_year, end_year, avg_value, data_points_count, now) ==
    LET key == <<region_id, metric_id, scenario_id, start_year, end_year>>
        conflict == {row \in averages : RowKey(row) = key}
        excluded == [region_id |-> region_id, metric_id |-> metric_id,
                     scenario_id |-> scenario_id,
                     start_year |-> start_year, end_year |-> end_year,
                     avg_value |-> ToNumeric(avg_value),
                     data_points_count |-> data_points_count,
                     computed_at |-> now]
    IN IF conflict = {}
       THEN averages \cup {excluded}
       ELSE (averages \ conflict) \cup
            {[row EXCEPT !.avg_value = excluded.avg_value,
                         !.data_points_count = excluded.data_points_count,
                         !.computed_at = now] : row \in conflict}

(* get_all_cached_averages without the conditions on start_year, end_year *)
get_all_cached_averages_any_range(averages, metric_id, scenario_id, start_year, end_year) ==
    LET results == {row \in averages : /\ row.metric_id = metric_id
                                       /\ row.scenario_id = scenario_id}
    IN [r \in {row.region_id : row \in results} |->
          LET row == CHOOSE x \in results : x.region_id = r
          IN [avg_value |-> row.avg_value,
              data_points_count |-> row.data_points_count,
              computed_at |-> row.computed_at]]

(* get_all_cached_averages: dict region_id -> row *)
get_all_cached_averages(averages, metric_id, scenario_id, start_year, end_year) ==
    LET results == {row \in averages : /\ row.metric_id = metric_id
                                       /\ row.scenario_id = scenario_id
                                       /\ row.start_year = start_year
                                       /\ row.end_year = end_year}
    IN [r \in {row.region_id : row \in results} |->
          LET row == CHOOSE x \in results : x.region_id = r
          IN [avg_value |-> row.avg_value,
              data_points_count |-> row.data_points_count,
              computed_at |-> row.computed_at]]

(* compute_all_averages without GROUP BY region_id: every region gets the
   aggregate over the rows of all regions *)
compute_all_averages_ungrouped(data, metric_id, scenario_id, start_year, end_year) ==
    LET all == yearly_data(data, Regions, metric_id, scenario_id, start_year, end_year)
    IN [r \in {cd.region_id : cd \in all} |-> <<AvgValue(all), Cardinality(all)>>]

(* compute_all_averages: dict region_id -> <<avg_value, data_points_count>> *)
compute_all_averages(data, metric_id, scenario_id, start_year, end_year) ==
    LET rows(r) == yearly_data(data, {r}, metric_id, scenario_id, start_year, end_year)
        groups == {cd.region_id :
                     cd \in yearly_data(data, Regions, metric_id, scenario_id,
                                        start_year, end_year)}
    IN [r \in {g \in groups : Cardinality(rows(g)) > 0} |->
          <<AvgValue(rows(r)), Cardinality(rows(r))>>]

----------------------------------------------------------------------------
(* The schema: create_tables of seed_climate_metrics.py *)

Tables == {"metrics", "scenarios", "climate_data", "climate_averages"}

(* the indexes create_tables creates, and the table each one is on *)
Indexes ==
    [idx_climate_data_region      |-> "climate_data",
     idx_climate_data_metric      |-> "climate_data",
     idx_climate_data_scenario    |-> "climate_data",
     idx_climate_data_year        |-> "climate_data",
     idx_climate_data_composite   |-> "climate_data",
     idx_climate_averages_lookup  |-> "climate_averages",
     idx_climate_data_region_id   |-> "climate_data"]

AllRelations == Tables \cup DOMAIN Indexes

(* DROP TABLE IF EXISTS t CASCADE: the table goes with its indexes (and with
   the foreign keys of other tables to it, which are not tracked here) *)
drop_table(rels, t) == rels \ ({t} \cup {i \in DOMAIN Indexes : Indexes[i] = t})

(* CREATE TABLE IF NOT EXISTS t, CREATE INDEX IF NOT EXISTS i *)
create_if_not_exists(rels, name) == rels \cup {name}

(* the relations after lines 25-84 of create_tables: the three drops, the
   four CREATE TABLE IF NOT EXISTS and the five CREATE INDEX IF NOT EXISTS
   on climate_data *)
before_lookup_index(rels) ==
    LET dropped == drop_table(drop_table(drop_table(rels, "climate_data"),
                                         "metrics"), "scenarios")
    IN dropped \cup Tables
       \cup {"idx_climate_data_region", "idx_climate_data_metric",
             "idx_climate_data_scenario", "idx_climate_data_year",
             "idx_climate_data_composite"}

----------------------------------------------------------------------------
(* lifespan (lines 133-156).  uvicorn serves requests once the startup part
   of lifespan has returned.  state is "starting" before the first attempt,
   "sleeping" between two attempts, "serving" after the yield, "failed"
   after the raise; attempt counts the attempts begun, metrics and scenarios
   tell whether cache.metrics and cache.scenarios are loaded, last_refresh
   is the attempt that set cache.last_refresh (0: None), error is the kind
   of the last exception of cache.refresh *)
NotStarted ==
    [state |-> "starting", attempt |-> 0, retry_delay |-> retry_delay_0,
     metrics |-> FALSE, scenarios |-> FALSE, last_refresh |-> 0,
     error |-> "none"]

Started ==
    [state |-> "serving", attempt |-> 1, retry_delay |-> retry_delay_0,
     metrics |-> TRUE, scenarios |-> TRUE, last_refresh |-> 1,
     error |-> "none"]

(* Handler state *)

EmptyLoc ==
    [cached_result |-> {}, result |-> {}, cached_data |-> <<>>,
     data_points |-> <<>>, regions_to_cache |-> <<>>,
     cached_count |-> 0, computed_count |-> 0, puts |-> 0, at_before |-> 0]

NoReq == [kind |-> "none"]
NoResp == [status |-> 0]

SingleReq(region_id, metric_code, scenario_code, start_year, end_year, force_recompute, american) ==
    [kind |-> "single", region_id |-> region_id, metric_code |-> metric_code,
     scenario_code |-> scenario_code, start_year |-> start_year,
     end_year |-> end_year, force_recompute |-> force_recompute,
     american |-> american]

BulkReq(metric_code, scenario_code, start_year, end_year, region_ids, force_recompute, include_summary, american) ==
    [kind |-> "bulk", metric_code |-> metric_code,
     scenario_code |-> scenario_code, start_year |-> start_year,
     end_year |-> end_year, region_ids |-> region_ids,
     force_recompute |-> force_recompute,
     include_summary |-> include_summary, american |-> american]

metric_id(r) == Metrics[r.metric_code].id
scenario_id(r) == Scenarios[r.scenario_code].id
metric_unit(r) == Metrics[r.metric_code].unit

(* the request repeats the parameters of the one answered by old, without
   forcing: resp[w] is kept through such a request, so that the two
   responses can be compared, and cleared by any other request *)
Repeats(r, old) ==
    /\ old.status = 200
    /\ ~r.force_recompute
    /\ r = [old.req EXCEPT !.force_recompute = FALSE]

(* an HTTPException (or FastAPI's 422 for a Query bound) ends the request;
   leaving the with-blocks closes the connection, which rolls back *)
Fail(w, status, detail) ==
    /\ pc' = [pc EXCEPT ![w] = "idle"]
    /\ req' = [req EXCEPT ![w] = NoReq]
    /\ tx' = [tx EXCEPT ![w] = 0]
    /\ resp' = [resp EXCEPT ![w] =
                  [status |-> status, detail |-> detail, kind |-> req[w].kind,
                   req |-> req[w], puts |-> loc[w].puts, seen |-> Len(put_log)]]
    /\ loc' = [loc EXCEPT ![w] = EmptyLoc]

(* Rejection without the comparison of start_year with end_year *)
Rejection_unordered(r) ==
    IF \/ r.start_year < MinYear \/ r.start_year > MaxYear
       \/ r.end_year < MinYear \/ r.end_year > MaxYear
    THEN <<422, "query_bounds">>
    ELSE IF r.metric_code \notin DOMAIN Metrics THEN <<404, "metric">>
    ELSE IF r.scenario_code \notin DOMAIN Scenarios THEN <<404, "scenario">>
    ELSE <<>>

(* the checks both handlers make before opening a connection: the Query
   bounds ge/le, start_year > end_year, get_metric_and_scenario_ids *)
Rejection(r) ==
    IF \/ r.start_year < MinYear \/ r.start_year > MaxYear
       \/ r.end_year < MinYear \/ r.end_year > MaxYear
    THEN <<422, "query_bounds">>
    ELSE IF r.start_year > r.end_year THEN <<400, "year_range">>
    ELSE IF r.metric_code \notin DOMAIN Metrics THEN <<404, "metric">>
    ELSE IF r.scenario_code \notin DOMAIN Scenarios THEN <<404, "scenario">>
    ELSE <<>>

(* history: the computed_at of the row climate_averages holds for the key of
   a single-key request when the request arrives, 0 when it holds none *)
StampBefore(r) ==
    IF r.kind # "single" THEN 0
    ELSE LET rows == {row \in climate_averages :
                        RowKey(row) = <<r.region_id, metric_id(r), scenario_id(r),
                                        r.start_year, r.end_year>>}
         IN IF rows = {} THEN 0 ELSE (CHOOSE row \in rows : TRUE).computed_at

Receive(w, r) ==
    /\ startup.state = "serving"
    /\ pc[w] = "idle"
    /\ clock < MaxClock
    /\ IF Rejection(r) # <<>>
       THEN /\ pc' = pc /\ req' = req /\ tx' = tx /\ loc' = loc
            /\ resp' = [resp EXCEPT ![w] =
                          [status |-> Rejection(r)[1], detail |-> Rejection(r)[2],
                           kind |-> r.kind, req |-> r, puts |-> 0,
                           seen |-> Len(put_log)]]
       ELSE /\ pc' = [pc EXCEPT ![w] =
                        IF r.kind = "single"
                        THEN (IF r.force_recompute THEN "single_compute" ELSE "single_cached")
                        ELSE (IF r.force_recompute THEN "bulk_compute" ELSE "bulk_cached")]
            /\ req' = [req EXCEPT ![w] = r]
            /\ loc' = [loc EXCEPT ![w] = [EmptyLoc EXCEPT !.at_before = StampBefore(r)]]
            /\ resp' = [resp EXCEPT ![w] =
                          IF Repeats(r, resp[w]) THEN resp[w] ELSE NoResp]
            /\ tx' = tx
    /\ UNCHANGED <<relations, seeder, startup, climate_data, climate_averages, clock, put_log>>

(* cur.execute on worker w's connection: the first statement after connect
   or commit starts a transaction *)
CanExecute(w) == tx[w] # 0 \/ clock < MaxClock
StartTime(w) == IF tx[w] # 0 THEN tx[w] ELSE clock + 1
Execute(w) ==
    /\ CanExecute(w)
    /\ clock' = IF tx[w] # 0 THEN clock ELSE clock + 1

----------------------------------------------------------------------------
(* get_multi_year_average *)

Display(r, avg_value) ==
    IF r.american THEN convert_to_american_units(avg_value, metric_unit(r))
    ELSE avg_value

(* MultiYearAverageResponse; computed_at is the timestamp its isoformat()
   string denotes *)
SingleResponse(w, avg_value, data_points_count, computed_at, is_cached) ==
    [status |-> 200, kind |-> "single", req |-> req[w],
     average_value |-> Display(req[w], avg_value),
     data_points_count |-> data_points_count,
     cached |-> is_cached, computed_at |-> computed_at,
     puts |-> loc[w].puts, seen |-> Len(put_log)]

Return(w, response) ==
    /\ pc' = [pc EXCEPT ![w] = "idle"]
    /\ req' = [req EXCEPT ![w] = NoReq]
    /\ tx' = [tx EXCEPT ![w] = 0]
    /\ loc' = [loc EXCEPT ![w] = EmptyLoc]
    /\ resp' = [resp EXCEPT ![w] = response]

(* lines 680-690: the lookup of the cached record, and the cached answer.
   When the record is there the transaction ends with the answer, and
   nothing reads its start time: the clock is left as it is *)
SingleCached(w) ==
    /\ pc[w] = "single_cached"
    /\ LET r == req[w]
           cached_result == get_cached_average(climate_averages, r.region_id,
                                metric_id(r), scenario_id(r), r.start_year, r.end_year)
       IN IF cached_result # {}
          THEN LET c == CHOOSE x \in cached_result : TRUE
               IN /\ Return(w, SingleResponse(w, ToFloat(c.avg_value),
                                   c.data_points_count, c.computed_at, TRUE))
                  /\ clock' = clock
          ELSE /\ Execute(w)
               /\ pc' = [pc EXCEPT ![w] = "single_compute"]
               /\ tx' = [tx EXCEPT ![w] = StartTime(w)]
               /\ UNCHANGED <<req, loc, resp>>
    /\ UNCHANGED <<relations, seeder, startup, climate_data, climate_averages, put_log>>

(* lines 692-704: compute_average and the 404 when it returns None *)
SingleCompute(w) ==
    /\ pc[w] = "single_compute"
    /\ Execute(w)
    /\ LET r == req[w]
           result == compute_average(climate_data, r.region_id, metric_id(r),
                         scenario_id(r), r.start_year, r.end_year)
       IN IF result = {}
          THEN Fail(w, 404, "no_data")
          ELSE /\ pc' = [pc EXCEPT ![w] = "single_store"]
               /\ tx' = [tx EXCEPT ![w] = StartTime(w)]
               /\ loc' = [loc EXCEPT ![w].result = result]
               /\ UNCHANGED <<req, resp>>
    /\ UNCHANGED <<relations, seeder, startup, climate_data, climate_averages, put_log>>

(* the entry put_log keeps of one store_computed_average call *)
PutEntry(w, region_id, avg_value, data_points_count, now) ==
    [by |-> w,
     key |-> <<region_id, metric_id(req[w]), scenario_id(req[w]),
               req[w].start_year, req[w].end_year>>,
     avg_value |-> avg_value, data_points_count |-> data_points_count,
     now |-> now]

(* lines 706-710: store_computed_average, which commits *)
SingleStore(w) ==
    /\ pc[w] = "single_store"
    /\ Execute(w)
    /\ LET r == req[w]
           result == CHOOSE x \in loc[w].result : TRUE
       IN /\ climate_averages' =
                store_computed_average(climate_averages, r.region_id, metric_id(r),
                    scenario_id(r), r.start_year, r.end_year,
                    result[1], result[2], StartTime(w))
          /\ put_log' = Append(put_log,
                PutEntry(w, r.region_id, result[1], result[2], StartTime(w)))
    /\ pc' = [pc EXCEPT ![w] = "single_stamp"]
    /\ tx' = [tx EXCEPT ![w] = 0]
    /\ loc' = [loc EXCEPT ![w].puts = @ + 1]
    /\ UNCHANGED <<relations, seeder, startup, climate_data, req, resp>>

(* lines 712-742: the SELECT of computed_at and the answer.  The SELECT runs
   in a transaction of its own, whose start time nothing reads: the clock is
   left as it is *)
SingleStamp(w) ==
    /\ pc[w] = "single_stamp"
    /\ LET r == req[w]
           result == CHOOSE x \in loc[w].result : TRUE
           timestamp_result == get_cached_average(climate_averages, r.region_id,
                                   metric_id(r), scenario_id(r), r.start_year, r.end_year)
       IN IF timestamp_result = {}
          THEN Fail(w, 500, "no_row")
          ELSE LET t == CHOOSE x \in timestamp_result : TRUE
               IN Return(w, SingleResponse(w, result[1], result[2],
                                           t.computed_at, FALSE))
    /\ UNCHANGED <<relations, seeder, startup, climate_data, climate_averages, clock, put_log>>

----------------------------------------------------------------------------
(* get_multi_year_average_all_regions *)

(* the filter test with in for not in *)
InFilter_inverted(region_ids, region_id) ==
    region_ids = NoFilter \/ region_id \notin region_ids[1]

InFilter(region_ids, region_id) ==
    region_ids = NoFilter \/ region_id \in region_ids[1]

(* merge_region counting a region before the filter skips it *)
merge_region_count_first(acc, region_id, computed_data, cached_data, r) ==
    LET use_cached == ~r.force_recompute /\ region_id \in DOMAIN cached_data
    IN IF ~InFilter(r.region_ids, region_id)
       THEN [acc EXCEPT !.cached_count = @ + (IF use_cached THEN 1 ELSE 0),
                        !.computed_count = @ + (IF use_cached THEN 0 ELSE 1)]
       ELSE [data_points |-> Append(acc.data_points,
                                [region_id |-> region_id,
                                 average_value |->
                                     Display(r, IF use_cached
                                                THEN ToFloat(cached_data[region_id].avg_value)
                                                ELSE computed_data[region_id][1]),
                                 data_points_count |->
                                     IF use_cached
                                     THEN cached_data[region_id].data_points_count
                                     ELSE computed_data[region_id][2]]),
             regions_to_cache |->
                 IF use_cached THEN acc.regions_to_cache
                 ELSE Append(acc.regions_to_cache,
                             <<region_id, computed_data[region_id][1],
                               computed_data[region_id][2]>>),
             cached_count |-> acc.cached_count + (IF use_cached THEN 1 ELSE 0),
             computed_count |-> acc.computed_count + (IF use_cached THEN 0 ELSE 1)]

(* merge_region without the queueing of a computed region for the store *)
merge_region_no_queue(acc, region_id, computed_data, cached_data, r) ==
    IF ~InFilter(r.region_ids, region_id) THEN acc
    ELSE LET use_cached == ~r.force_recompute /\ region_id \in DOMAIN cached_data
         IN [data_points |-> Append(acc.data_points,
                                [region_id |-> region_id,
                                 average_value |->
                                     Display(r, IF use_cached
                                                THEN ToFloat(cached_data[region_id].avg_value)
                                                ELSE computed_data[region_id][1]),
                                 data_points_count |->
                                     IF use_cached
                                     THEN cached_data[region_id].data_points_count
                                     ELSE computed_data[region_id][2]]),
             regions_to_cache |-> acc.regions_to_cache,
             cached_count |-> acc.cached_count + (IF use_cached THEN 1 ELSE 0),
             computed_count |-> acc.computed_count + (IF use_cached THEN 0 ELSE 1)]

(* merge_region queueing the computed pair of a region for the store before
   the filter skips it *)
merge_region_queue_first(acc, region_id, computed_data, cached_data, r) ==
    LET use_cached == ~r.force_recompute /\ region_id \in DOMAIN cached_data
        queued == IF use_cached THEN acc.regions_to_cache
                  ELSE Append(acc.regions_to_cache,
                              <<region_id, computed_data[region_id][1],
                                computed_data[region_id][2]>>)
    IN IF ~InFilter(r.region_ids, region_id)
       THEN [acc EXCEPT !.regions_to_cache = queued]
       ELSE [data_points |-> Append(acc.data_points,
                                [region_id |-> region_id,
                                 average_value |->
                                     Display(r, IF use_cached
                                                THEN ToFloat(cached_data[region_id].avg_value)
                                                ELSE computed_data[region_id][1]),
                                 data_points_count |->
                                     IF use_cached
                                     THEN cached_data[region_id].data_points_count
                                     ELSE computed_data[region_id][2]]),
             regions_to_cache |-> queued,
             cached_count |-> acc.cached_count + (IF use_cached THEN 1 ELSE 0),
             computed_count |-> acc.computed_count + (IF use_cached THEN 0 ELSE 1)]

(* merge_region queueing display_value, the converted value, for the store *)
merge_region_queue_display(acc, region_id, computed_data, cached_data, r) ==
    IF ~InFilter(r.region_ids, region_id) THEN acc
    ELSE LET use_cached == ~r.force_recompute /\ region_id \in DOMAIN cached_data
             avg_value == IF use_cached
                          THEN ToFloat(cached_data[region_id].avg_value)
                          ELSE computed_data[region_id][1]
             data_points_count == IF use_cached
                                  THEN cached_data[region_id].data_points_count
                                  ELSE computed_data[region_id][2]
         IN [data_points |-> Append(acc.data_points,
                                [region_id |-> region_id,
                                 average_value |-> Display(r, avg_value),
                                 data_points_count |-> data_points_count]),
             regions_to_cache |->
                 IF use_cached THEN acc.regions_to_cache
                 ELSE Append(acc.regions_to_cache,
                             <<region_id, Display(r, avg_value), data_points_count>>),
             cached_count |-> acc.cached_count + (IF use_cached THEN 1 ELSE 0),
             computed_count |-> acc.computed_count + (IF use_cached THEN 0 ELSE 1)]

(* one pass of the loop of lines 826-850 over the region region_id *)
merge_region(acc, region_id, computed_data, cached_data, r) ==
    IF ~InFilter(r.region_ids, region_id) THEN acc
    ELSE LET use_cached == ~r.force_recompute /\ region_id \in DOMAIN cached_data
             avg_value == IF use_cached
                          THEN ToFloat(cached_data[region_id].avg_value)
                          ELSE computed_data[region_id][1]
             data_points_count == IF use_cached
                                  THEN cached_data[region_id].data_points_count
                                  ELSE computed_data[region_id][2]
         IN [data_points |-> Append(acc.data_points,
                                [region_id |-> region_id,
                                 average_value |-> Display(r, avg_value),
                                 data_points_count |-> data_points_count]),
             regions_to_cache |->
                 IF use_cached THEN acc.regions_to_cache
                 ELSE Append(acc.regions_to_cache,
                             <<region_id, avg_value, data_points_count>>),
             cached_count |-> acc.cached_count + (IF use_cached THEN 1 ELSE 0),
             computed_count |-> acc.computed_count + (IF use_cached THEN 0 ELSE 1)]

(* the loop of lines 822-850, over computed_data.items() in the order the
   rows came *)
RECURSIVE merge(_, _, _, _)
merge(order, computed_data, cached_data, r) ==
    IF order = <<>>
    THEN [data_points |-> <<>>, regions_to_cache |-> <<>>,
          cached_count |-> 0, computed_count |-> 0]
    ELSE merge_region(merge(SubSeq(order, 1, Len(order) - 1),
                            computed_data, cached_data, r),
                      order[Len(order)], computed_data, cached_data, r)

(* Summary taking the first and the last value for the smallest and the
   largest *)
Summary_first_last(include_summary, data_points) ==
    IF include_summary
    THEN LET values == [i \in DOMAIN data_points |-> data_points[i].average_value]
         IN {[min |-> values[1], max |-> values[Len(values)],
              mean |-> SeqSum(values) \div Len(values),
              count |-> Len(values)]}
    ELSE {}

(* lines 865-874 *)
Summary(include_summary, data_points) ==
    IF include_summary
    THEN LET values == [i \in DOMAIN data_points |-> data_points[i].average_value]
         IN {[min |-> SeqMin(values), max |-> SeqMax(values),
              mean |-> SeqSum(values) \div Len(values),
              count |-> Len(values)]}
    ELSE {}

(* MultiYearAverageAllRegionsResponse *)
BulkResponse(w, puts, seen, data_points, cached_count, computed_count) ==
    [status |-> 200, kind |-> "bulk", req |-> req[w],
     data |-> data_points,
     summary |-> Summary(req[w].include_summary, data_points),
     cached_count |-> cached_count, computed_count |-> computed_count,
     puts |-> puts, seen |-> seen]

(* lines 859-889, reached when every queued region is stored *)
BulkFinish(w, puts, seen, data_points, cached_count, computed_count) ==
    IF data_points = <<>>
    THEN Fail(w, 404, "region_filter")
    ELSE Return(w, BulkResponse(w, puts, seen, data_points, cached_count,
                                computed_count))

(* lines 804-808 *)
BulkCached(w) ==
    /\ pc[w] = "bulk_cached"
    /\ Execute(w)
    /\ LET r == req[w]
       IN loc' = [loc EXCEPT ![w].cached_data =
                    get_all_cached_averages(climate_averages, metric_id(r),
                        scenario_id(r), r.start_year, r.end_year)]
    /\ pc' = [pc EXCEPT ![w] = "bulk_compute"]
    /\ tx' = [tx EXCEPT ![w] = StartTime(w)]
    /\ UNCHANGED <<relations, seeder, startup, climate_data, climate_averages, req, resp, put_log>>

(* lines 810-850: compute_all_averages, the 404 on an empty result, and the
   merge loop; with nothing to store, also the rest of the handler *)
BulkCompute(w) ==
    /\ pc[w] = "bulk_compute"
    /\ Execute(w)
    /\ LET r == req[w]
           computed_data == compute_all_averages(climate_data, metric_id(r),
                                scenario_id(r), r.start_year, r.end_year)
       IN IF DOMAIN computed_data = {}
          THEN Fail(w, 404, "no_data")
          ELSE \E order \in Orders(DOMAIN computed_data) :
                 LET m == merge(order, computed_data, loc[w].cached_data, r)
                 IN IF m.regions_to_cache = <<>>
                    THEN BulkFinish(w, 0, Len(put_log), m.data_points, m.cached_count,
                                    m.computed_count)
                    ELSE /\ pc' = [pc EXCEPT ![w] = "bulk_store"]
                         /\ tx' = [tx EXCEPT ![w] = StartTime(w)]
                         /\ loc' = [loc EXCEPT
                                      ![w].data_points = m.data_points,
                                      ![w].regions_to_cache = m.regions_to_cache,
                                      ![w].cached_count = m.cached_count,
                                      ![w].computed_count = m.computed_count]
                         /\ UNCHANGED <<req, resp>>
    /\ UNCHANGED <<relations, seeder, startup, climate_data, climate_averages, put_log>>

(* lines 852-857: one store_computed_average of the loop, which commits;
   after the last one, the rest of the handler *)
BulkStore(w) ==
    /\ pc[w] = "bulk_store"
    /\ Execute(w)
    /\ LET r == req[w]
           entry == Head(loc[w].regions_to_cache)
           rest == Tail(loc[w].regions_to_cache)
       IN /\ climate_averages' =
                store_computed_average(climate_averages, entry[1], metric_id(r),
                    scenario_id(r), r.start_year, r.end_year,
                    entry[2], entry[3], StartTime(w))
          /\ put_log' = Append(put_log,
                PutEntry(w, entry[1], entry[2], entry[3], StartTime(w)))
          /\ IF rest = <<>>
             THEN BulkFinish(w, loc[w].puts + 1, Len(put_log) + 1, loc[w].data_points,
                             loc[w].cached_count, loc[w].computed_count)
             ELSE /\ pc' = pc
                  /\ tx' = [tx EXCEPT ![w] = 0]
                  /\ loc' = [loc EXCEPT ![w].regions_to_cache = rest,
                                        ![w].puts = @ + 1]
                  /\ UNCHANGED <<req, resp>>
    /\ UNCHANGED <<relations, seeder, startup, climate_data>>

----------------------------------------------------------------------------
(* Requests *)

(* In.single and In.bulk are the requests that may arrive *)
SingleRequest(w, In) == \E r \in In.single : Receive(w, r)

BulkRequest(w, In) == \E r \in In.bulk : Receive(w, r)

----------------------------------------------------------------------------
(* Initial states: the tables after a seeding run (create_tables,
   seed_reference_data, process_directory) and before any request.
   process_json_file inserts no NULL value, and at most one row per
   (region_id, metric_id, scenario_id, year) *)

DataRows(series, metric_code) ==
    {[region_id |-> c[1], metric_id |-> Metrics[metric_code].id,
      scenario_id |-> Scenarios.ssp245.id, year |-> c[2],
      value |-> <<series[c]>>] : c \in DOMAIN series}

SeededData(metric_code) ==
    {DataRows(series, metric_code) :
        series \in UNION {[cells -> SampleValues] :
                            cells \in SUBSET SeededCells}}

InitWith(data) ==
    /\ climate_data \in data
    /\ climate_averages = {}
    /\ clock = 0
    /\ pc = [w \in Workers |-> "idle"]
    /\ req = [w \in Workers |-> NoReq]
    /\ tx = [w \in Workers |-> 0]
    /\ loc = [w \in Workers |-> EmptyLoc]
    /\ resp = [w \in Workers |-> NoResp]
    /\ put_log = <<>>
    /\ startup = Started
    /\ relations = AllRelations
    /\ seeder = "created"

----------------------------------------------------------------------------
(* One API worker serving requests one after the other *)

(* every request for a target that passes the checks, and one request for
   each target that fails one *)
SeqInputs ==
    [single |->
        {SingleReq(region_id, t[1], t[2], t[3], t[4], force_recompute, american) :
            region_id \in Regions, t \in GoodTargets,
            force_recompute \in BOOLEAN, american \in BOOLEAN}
        \cup {SingleReq(1, t[1], t[2], t[3], t[4], FALSE, FALSE) : t \in BadTargets},
     bulk |->
        {BulkReq(t[1], t[2], t[3], t[4], region_ids, force_recompute, TRUE, american) :
            t \in GoodTargets, region_ids \in FilterInputs,
            force_recompute \in BOOLEAN, american \in BOOLEAN}
        \cup {BulkReq(t[1], t[2], t[3], t[4], NoFilter, FALSE, TRUE, FALSE) :
                t \in BadTargets}]

Init == InitWith(SeededData("annual_temp"))

Next ==
    \/ SingleRequest("w1", SeqInputs)
    \/ BulkRequest("w1", SeqInputs)
    \/ SingleCached("w1")
    \/ SingleCompute("w1")
    \/ SingleStore("w1")
    \/ SingleStamp("w1")
    \/ BulkCached("w1")
    \/ BulkCompute("w1")
    \/ BulkStore("w1")

Spec == Init /\ [][Next]_vars

----------------------------------------------------------------------------
(* process_json_file that also deletes the rows of climate_averages whose
   range holds the year of the value it loads *)
process_json_file_invalidating(region_id, year, value) ==
    /\ climate_data' =
          {cd \in climate_data :
              ~(/\ cd.region_id = region_id /\ cd.year = year
                /\ cd.metric_id = Metrics.annual_temp.id
                /\ cd.scenario_id = Scenarios.ssp245.id)}
          \cup {[region_id |-> region_id, metric_id |-> Metrics.annual_temp.id,
                 scenario_id |-> Scenarios.ssp245.id, year |-> year,
                 value |-> <<value>>]}
    /\ climate_data' # climate_data
    /\ climate_averages' =
          {row \in climate_averages :
              ~(row.region_id = region_id /\ year \in row.start_year..row.end_year)}
    /\ UNCHANGED <<relations, seeder, startup, clock, pc, req, tx, loc, resp, put_log>>

----------------------------------------------------------------------------
(* process_json_file for a file that holds one value, of one region and one
   year, of the metric annual_temp under ssp245: INSERT ... ON CONFLICT
   (region_id, metric_id, scenario_id, year) DO UPDATE SET value, then
   commit.  The seeder runs on a connection of its own, at any time. *)
process_json_file(region_id, year, value) ==
    /\ climate_data' =
          {cd \in climate_data :
              ~(/\ cd.region_id = region_id /\ cd.year = year
                /\ cd.metric_id = Metrics.annual_temp.id
                /\ cd.scenario_id = Scenarios.ssp245.id)}
          \cup {[region_id |-> region_id, metric_id |-> Metrics.annual_temp.id,
                 scenario_id |-> Scenarios.ssp245.id, year |-> year,
                 value |-> <<value>>]}
    /\ climate_data' # climate_data
    /\ UNCHANGED <<relations, seeder, startup, climate_averages, clock, pc, req, tx, loc, resp, put_log>>

----------------------------------------------------------------------------
(* Two API workers on the same database, and a seeder run that loads a later
   value of region 1 for 2021 *)

ConcInputs ==
    [single |->
        {SingleReq(region_id, "annual_temp", "ssp245", 2020, 2021, force_recompute, FALSE) :
            region_id \in Regions, force_recompute \in BOOLEAN},
     bulk |->
        {BulkReq("annual_temp", "ssp245", 2020, 2021, NoFilter, force_recompute, TRUE, FALSE) :
            force_recompute \in BOOLEAN}]

(* region 1 has a value for 2020, region 2 has none *)
InitConc ==
    InitWith({DataRows([cell \in {<<1, 2020>>} |-> 0], "annual_temp")})

Handle(w) ==
    \/ SingleCached(w)
    \/ SingleCompute(w)
    \/ SingleStore(w)
    \/ SingleStamp(w)
    \/ BulkCached(w)
    \/ BulkCompute(w)
    \/ BulkStore(w)

NextConc ==
    \/ \E w \in Workers : SingleRequest(w, ConcInputs)
    \/ \E w \in Workers : BulkRequest(w, ConcInputs)
    \/ \E w \in Workers : Handle(w)
    \/ \E value \in SampleValues : process_json_file(1, 2021, value)

SpecConc == InitConc /\ [][NextConc]_vars

----------------------------------------------------------------------------
(* One API worker serving bulk requests, and a seeder run that loads the
   first value of region 2 *)

FreshInputs ==
    [single |-> {},
     bulk |->
        {BulkReq("annual_temp", "ssp245", 2020, 2021, region_ids, force_recompute, TRUE, FALSE) :
            region_ids \in {NoFilter, <<{2}>>}, force_recompute \in BOOLEAN}]

(* region 1 has a value for 2020, region 2 has none *)
InitFresh ==
    InitWith({DataRows([cell \in {<<1, 2020>>} |-> value], "annual_temp") :
                value \in SampleValues})

NextFresh ==
    \/ BulkRequest("w1", FreshInputs)
    \/ BulkCached("w1")
    \/ BulkCompute("w1")
    \/ BulkStore("w1")
    \/ \E value \in SampleValues : process_json_file(2, 2020, value)

SpecFresh == InitFresh /\ [][NextFresh]_vars

----------------------------------------------------------------------------
(* One API worker serving single-key and bulk requests, and seeder runs that
   load a later value of region 1 for 2020 or its first value for 2021 *)

StaleInputs ==
    [single |->
        {SingleReq(1, "annual_temp", "ssp245", 2020, 2021, force_recompute, FALSE) :
            force_recompute \in BOOLEAN},
     bulk |->
        {BulkReq("annual_temp", "ssp245", 2020, 2021, NoFilter, force_recompute, TRUE, FALSE) :
            force_recompute \in BOOLEAN}]

(* both regions have a value for 2020 *)
InitStale ==
    InitWith({DataRows([cell \in {<<1, 2020>>, <<2, 2020>>} |-> value], "annual_temp") :
                value \in SampleValues})

NextStale ==
    \/ SingleRequest("w1", StaleInputs)
    \/ BulkRequest("w1", StaleInputs)
    \/ Handle("w1")
    \/ \E year \in {2020, 2021}, value \in SampleValues :
          process_json_file(1, year, value)

SpecStale == InitStale /\ [][NextStale]_vars

----------------------------------------------------------------------------
(* One API worker serving bulk requests for one range, on any seeded data *)

WarmInputs ==
    [single |-> {},
     bulk |->
        {BulkReq("annual_temp", "ssp245", 2020, 2021, region_ids, force_recompute, TRUE, american) :
            region_ids \in {NoFilter, <<{1}>>, <<{1, 2}>>},
            force_recompute \in BOOLEAN, american \in BOOLEAN}]

InitWarm == InitWith(SeededData("annual_temp"))

NextWarm ==
    \/ BulkRequest("w1", WarmInputs)
    \/ BulkCached("w1")
    \/ BulkCompute("w1")
    \/ BulkStore("w1")

SpecWarm == InitWarm /\ [][NextWarm]_vars

----------------------------------------------------------------------------
(* Two API workers on the same database, one getting the single-key
   requests and the other the bulk requests, a request arriving when no
   other is being handled *)

SinglePath == "w1"
BulkPath == "w2"

ShareInputs ==
    [single |->
        {SingleReq(region_id, "annual_temp", "ssp245", 2020, 2021, force_recompute, american) :
            region_id \in Regions, force_recompute \in BOOLEAN, american \in BOOLEAN},
     bulk |->
        {BulkReq("annual_temp", "ssp245", 2020, 2021, region_ids, force_recompute, TRUE, american) :
            region_ids \in {NoFilter, <<{2}>>},
            force_recompute \in BOOLEAN, american \in BOOLEAN}]

(* both regions have a value for 2020 *)
InitShare ==
    InitWith({DataRows(series, "annual_temp") :
                series \in [{<<1, 2020>>, <<2, 2020>>} -> SampleValues]})

NextShare ==
    \/ /\ \A w \in Workers : pc[w] = "idle"
       /\ SingleRequest(SinglePath, ShareInputs)
    \/ /\ \A w \in Workers : pc[w] = "idle"
       /\ BulkRequest(BulkPath, ShareInputs)
    \/ \E w \in Workers : Handle(w)

SpecShare == InitShare /\ [][NextShare]_vars

----------------------------------------------------------------------------
(* Storage failures.  psycopg2.connect, cur.execute or conn.commit raises;
   neither handler, nor the helpers, nor get_db_connection catches it: the
   exception leaves the with blocks, the connection is closed in the finally
   of get_db_connection, which rolls back what was not committed, and FastAPI
   answers 500.  The statement that failed has no effect. *)

(* a failure that is caught and logged, the handler going on *)
StorageFailure_swallowed(w) ==
    /\ pc[w] # "idle"
    /\ resp' = [resp EXCEPT ![w] =
                  [status |-> 500, detail |-> "storage", kind |-> req[w].kind,
                   req |-> req[w], puts |-> loc[w].puts, seen |-> Len(put_log)]]
    /\ UNCHANGED <<relations, seeder, startup, climate_data, climate_averages, clock, pc, req, tx, loc, put_log>>

(* a failure that undoes the puts the request has committed: the store
   loop as one transaction *)
StorageFailure_all_or_nothing(w) ==
    /\ pc[w] # "idle"
    /\ Fail(w, 500, "storage")
    /\ climate_averages' =
          {row \in climate_averages :
              \A i \in (Len(put_log) - loc[w].puts + 1)..Len(put_log) :
                  put_log[i].key # RowKey(row)}
    /\ UNCHANGED <<relations, seeder, startup, climate_data, clock, put_log>>

StorageFailure(w) ==
    /\ pc[w] # "idle"
    /\ Fail(w, 500, "storage")
    /\ UNCHANGED <<relations, seeder, startup, climate_data, climate_averages, clock, put_log>>

FailInputs ==
    [single |->
        {SingleReq(region_id, "annual_temp", "ssp245", 2020, 2021, force_recompute, FALSE) :
            region_id \in Regions, force_recompute \in BOOLEAN},
     bulk |->
        {BulkReq("annual_temp", "ssp245", 2020, 2021, NoFilter, force_recompute, TRUE, FALSE) :
            force_recompute \in BOOLEAN}]

(* both regions have a value for 2020 *)
InitFail ==
    InitWith({DataRows([cell \in {<<1, 2020>>, <<2, 2020>>} |-> value], "annual_temp") :
                value \in SampleValues})

NextFail ==
    \/ SingleRequest("w1", FailInputs)
    \/ BulkRequest("w1", FailInputs)
    \/ Handle("w1")
    \/ StorageFailure("w1")

SpecFail == InitFail /\ [][NextFail]_vars

----------------------------------------------------------------------------
(* Startup of an API process *)

(* ReferenceDataCache.refresh (lines 115-127): connect, load cache.metrics,
   load cache.scenarios.  It may raise at the connect or at either query;
   the dictionary assigned before the exception stays assigned.  The result
   is what is loaded afterwards *)
RefreshOutcomes == {"ok", "connect_raises", "metrics_raises", "scenarios_raises"}

refresh(c, outcome) ==
    CASE outcome = "ok" -> [metrics |-> TRUE, scenarios |-> TRUE]
      [] outcome = "scenarios_raises" -> [metrics |-> TRUE, scenarios |-> c.scenarios]
      [] OTHER -> [metrics |-> c.metrics, scenarios |-> c.scenarios]

(* the exceptions of psycopg2: OperationalError (the database cannot be
   reached, or the connection is lost), and the others, such as the
   ProgrammingError of a query on a table that is not created yet *)
Errors == {"operational", "other"}

(* int(min(retry_delay * 1.5, 30)) *)
NextDelay(retry_delay) ==
    IF (3 * retry_delay) \div 2 < MaxDelay THEN (3 * retry_delay) \div 2 ELSE MaxDelay

(* one pass of the loop of lifespan, the sleep excluded; the pass after the
   last one is allowed too *)
lifespan_one_more ==
    /\ startup.state \in {"starting", "sleeping"}
    /\ startup.attempt < max_retries + 1
    /\ \E outcome \in RefreshOutcomes, error \in Errors :
          LET attempt == startup.attempt + 1
              loaded == refresh(startup, outcome)
          IN startup' =
                IF outcome = "ok"
                THEN [startup EXCEPT !.state = "serving", !.attempt = attempt,
                                     !.metrics = loaded.metrics,
                                     !.scenarios = loaded.scenarios,
                                     !.last_refresh = attempt,
                                     !.error = "none"]
                ELSE IF error = "operational" /\ attempt < max_retries + 1
                THEN [startup EXCEPT !.state = "sleeping", !.attempt = attempt,
                                     !.retry_delay = NextDelay(@),
                                     !.metrics = loaded.metrics,
                                     !.scenarios = loaded.scenarios,
                                     !.error = error]
                ELSE [startup EXCEPT !.state = "failed", !.attempt = attempt,
                                     !.metrics = loaded.metrics,
                                     !.scenarios = loaded.scenarios,
                                     !.error = error]
    /\ UNCHANGED <<relations, seeder, climate_data, climate_averages, clock, pc, req, tx, loc, resp, put_log>>

(* one pass of the loop of lifespan (lines 140-153): cache.refresh, then the
   break, the sleep before the next pass, or the raise *)
lifespan ==
    /\ startup.state \in {"starting", "sleeping"}
    /\ startup.attempt < max_retries
    /\ \E outcome \in RefreshOutcomes, error \in Errors :
          LET attempt == startup.attempt + 1
              loaded == refresh(startup, outcome)
          IN startup' =
                IF outcome = "ok"
                THEN [startup EXCEPT !.state = "serving", !.attempt = attempt,
                                     !.metrics = loaded.metrics,
                                     !.scenarios = loaded.scenarios,
                                     !.last_refresh = attempt,
                                     !.error = "none"]
                ELSE IF error = "operational" /\ attempt < max_retries
                THEN [startup EXCEPT !.state = "sleeping", !.attempt = attempt,
                                     !.retry_delay = NextDelay(@),
                                     !.metrics = loaded.metrics,
                                     !.scenarios = loaded.scenarios,
                                     !.error = error]
                ELSE [startup EXCEPT !.state = "failed", !.attempt = attempt,
                                     !.metrics = loaded.metrics,
                                     !.scenarios = loaded.scenarios,
                                     !.error = error]
    /\ UNCHANGED <<relations, seeder, climate_data, climate_averages, clock, pc, req, tx, loc, resp, put_log>>

(* before the startup: the seeded tables, no request, nothing loaded *)
InitStartup ==
    /\ climate_data \in {DataRows([cell \in {<<1, 2020>>, <<2, 2020>>} |-> value],
                                  "annual_temp") : value \in SampleValues}
    /\ climate_averages = {}
    /\ clock = 0
    /\ pc = [w \in Workers |-> "idle"]
    /\ req = [w \in Workers |-> NoReq]
    /\ tx = [w \in Workers |-> 0]
    /\ loc = [w \in Workers |-> EmptyLoc]
    /\ resp = [w \in Workers |-> NoResp]
    /\ put_log = <<>>
    /\ startup = NotStarted
    /\ relations = AllRelations
    /\ seeder = "created"

NextStartup ==
    \/ lifespan
    \/ SingleRequest("w1", FailInputs)
    \/ BulkRequest("w1", FailInputs)
    \/ Handle("w1")

(* the loop of lifespan runs on: every sleep ends *)
SpecStartup == InitStartup /\ [][NextStartup]_vars /\ WF_vars(lifespan)

----------------------------------------------------------------------------
(* Runs of the seeding script (main of seed_climate_metrics.py) on a database
   that starts empty, the API not running *)

(* create_tables (lines 21-91), one transaction.  Line 85 is a CREATE INDEX
   without IF NOT EXISTS: when the index is there it raises DuplicateTable,
   which main catches to print it and exit with status 1; conn.close() rolls
   the transaction back, the drops included.  Otherwise the transaction is
   committed: climate_data is an empty new table, climate_averages is kept
   when it was there *)
create_tables ==
    LET rels == before_lookup_index(relations)
    IN IF "idx_climate_averages_lookup" \in rels
       THEN /\ seeder' = "failed"
            /\ UNCHANGED <<relations, climate_data, climate_averages>>
            /\ UNCHANGED <<clock, pc, req, tx, loc, resp, put_log, startup>>
       ELSE /\ relations' = create_if_not_exists(
                               create_if_not_exists(rels, "idx_climate_averages_lookup"),
                               "idx_climate_data_region_id")
            /\ seeder' = "created"
            /\ climate_data' = {}
            /\ climate_averages' =
                  IF "climate_averages" \in relations THEN climate_averages ELSE {}
            /\ UNCHANGED <<clock, pc, req, tx, loc, resp, put_log, startup>>

(* the cells of the files of a seeding run *)
SeedCells == Regions \X {2020, 2021}

InitSeed ==
    /\ relations = {}
    /\ seeder = "not_run"
    /\ climate_data = {}
    /\ climate_averages = {}
    /\ clock = 0
    /\ pc = [w \in Workers |-> "idle"]
    /\ req = [w \in Workers |-> NoReq]
    /\ tx = [w \in Workers |-> 0]
    /\ loc = [w \in Workers |-> EmptyLoc]
    /\ resp = [w \in Workers |-> NoResp]
    /\ put_log = <<>>
    /\ startup = NotStarted

(* main: create_tables, then, when it returned, the files *)
NextSeed ==
    \/ create_tables
    \/ /\ seeder = "created"
       /\ \E c \in SeedCells, value \in SampleValues : process_json_file(c[1], c[2], value)

SpecSeed == InitSeed /\ [][NextSeed]_vars

----------------------------------------------------------------------------
(* Vocabulary of the properties *)

(* worker w answers the request it is handling in this step *)
Answers(w) == pc[w] # "idle" /\ pc'[w] = "idle"

ReqKey(r) == <<r.region_id, metric_id(r), scenario_id(r), r.start_year, r.end_year>>

(* the eligible samples of a region: the rows of climate_data of the metric
   and scenario with a year of the range and a value *)
Eligible(region_id, r) ==
    {cd \in climate_data : /\ cd.region_id = region_id
                           /\ cd.metric_id = metric_id(r)
                           /\ cd.scenario_id = scenario_id(r)
                           /\ cd.year \in r.start_year..r.end_year
                           /\ cd.value # NULL}

RowsOf(averages, key) == {row \in averages : RowKey(row) = key}

----------------------------------------------------------------------------
(* C1.  Idempotent memoization: when a worker answers a single-key request
   that repeats, without force_recompute, the parameters of the request it
   answered successfully just before, itself without force_recompute, and no
   put was committed since that answer, the new answer is successful, carries
   the same average_value, data_points_count and computed_at, and reports
   cached = TRUE. *)
C1_Idempotent ==
    [][\A w \in Workers :
         (/\ Answers(w)
          /\ req[w].kind = "single"
          /\ resp[w].status = 200
          /\ ~resp[w].req.force_recompute
          /\ Len(put_log') = resp[w].seen)
         => /\ resp'[w].status = 200
            /\ resp'[w].average_value = resp[w].average_value
            /\ resp'[w].data_points_count = resp[w].data_points_count
            /\ resp'[w].computed_at = resp[w].computed_at
            /\ resp'[w].cached]_vars

----------------------------------------------------------------------------
(* C2.  Forced overwrite, as claimed: every single-key request with
   force_recompute goes from its arrival to compute_average without reading
   the cached record, ends with a successful answer that reports
   cached = FALSE after exactly one put, and leaves for its key one row
   whose computed_at is greater than the computed_at the key's row had when
   the request arrived. *)
SkipsCache(w) ==
    (/\ pc[w] = "idle" /\ pc'[w] # "idle"
     /\ req'[w].kind = "single" /\ req'[w].force_recompute)
    => pc'[w] = "single_compute"

C2_ForcedOverwrite ==
    [][\A w \in Workers :
         /\ SkipsCache(w)
         /\ (Answers(w) /\ req[w].kind = "single" /\ req[w].force_recompute)
            => /\ resp'[w].status = 200
               /\ resp'[w].puts = 1
               /\ ~resp'[w].cached
               /\ RowsOf(climate_averages', ReqKey(req[w])) # {}
               /\ \A row \in RowsOf(climate_averages', ReqKey(req[w])) :
                     row.computed_at > loc[w].at_before]_vars

(* C2, amended: a single-key request with force_recompute goes from its
   arrival to compute_average without reading the cached record.  When the
   key has an eligible sample, compute_average is followed by the put, also
   when a row for the key exists; the put leaves one row for the key, whose
   computed_at is greater than the computed_at the key's row had when the
   request arrived; and the answer is successful after exactly one put, with
   cached = FALSE.  When the key has no eligible sample, the request ends with
   404 and without a put. *)
C2_ForcedOverwriteWithData ==
    [][\A w \in Workers :
         /\ SkipsCache(w)
         /\ (/\ pc[w] = "single_compute" /\ pc'[w] # pc[w]
             /\ req[w].force_recompute)
            => IF Eligible(req[w].region_id, req[w]) # {}
               THEN pc'[w] = "single_store"
               ELSE /\ pc'[w] = "idle"
                    /\ resp'[w].status = 404 /\ resp'[w].puts = 0
                    /\ climate_averages' = climate_averages
         /\ (/\ pc[w] = "single_store" /\ pc'[w] # pc[w]
             /\ req[w].force_recompute)
            => /\ pc'[w] = "single_stamp"
               /\ Cardinality(RowsOf(climate_averages', ReqKey(req[w]))) = 1
               /\ \A row \in RowsOf(climate_averages', ReqKey(req[w])) :
                     row.computed_at > loc[w].at_before
         /\ (/\ pc[w] = "single_stamp" /\ pc'[w] # pc[w]
             /\ req[w].force_recompute)
            => /\ resp'[w].status = 200
               /\ resp'[w].puts = 1
               /\ ~resp'[w].cached]_vars

(* a forced request was answered for a key that had a row when it arrived *)
C2_Witness ==
    \E w \in Workers :
        /\ resp[w].status = 200 /\ resp[w].kind = "single"
        /\ resp[w].req.force_recompute
        /\ resp[w].puts = 1 /\ ~resp[w].cached
        /\ \E i, j \in DOMAIN put_log :
              /\ i < j
              /\ put_log[i].key = ReqKey(resp[w].req)
              /\ put_log[j].key = ReqKey(resp[w].req)
              /\ put_log[j].by = w

----------------------------------------------------------------------------
(* C3.  Count conservation: in every successful answer of the bulk handler,
   cached_count + computed_count is the number of entries of data. *)
C3_CountConservation ==
    \A w \in Workers :
        (resp[w].status = 200 /\ resp[w].kind = "bulk")
        => resp[w].cached_count + resp[w].computed_count = Len(resp[w].data)

(* a filtered, unforced bulk answer that mixes a cached and a computed region *)
C3_Witness ==
    \E w \in Workers :
        /\ resp[w].status = 200 /\ resp[w].kind = "bulk"
        /\ resp[w].req.region_ids # NoFilter
        /\ resp[w].cached_count = 1 /\ resp[w].computed_count = 1

----------------------------------------------------------------------------
(* C4.  No-data semantics of the single-key handler: when the handler gets to
   compute_average (no cached record, or force_recompute) and the key has no
   eligible sample, the request ends there with 404, the step leaves
   climate_averages as it is, and the request has made no put. *)
C4_NoData ==
    [][\A w \in Workers :
         (/\ pc[w] = "single_compute"
          /\ pc'[w] # pc[w]
          /\ Eligible(req[w].region_id, req[w]) = {})
         => /\ resp'[w].status = 404
            /\ pc'[w] = "idle"
            /\ resp'[w].puts = 0
            /\ climate_averages' = climate_averages]_vars

(* a forced request for a key without samples was answered 404 *)
C4_Witness ==
    \E w \in Workers :
        /\ resp[w].status = 404 /\ resp[w].detail = "no_data"
        /\ resp[w].kind = "single"
        /\ resp[w].req.force_recompute
        /\ climate_averages # {}

----------------------------------------------------------------------------
(* History of puts *)

PutKeys == {put_log[i].key : i \in DOMAIN put_log}

(* the last put committed for a key that has one *)
LastPut(key) ==
    put_log[CHOOSE i \in DOMAIN put_log :
               /\ put_log[i].key = key
               /\ \A j \in DOMAIN put_log : put_log[j].key = key => j <= i]

(* the row a put writes *)
Written(entry) ==
    [avg_value |-> ToNumeric(entry.avg_value),
     data_points_count |-> entry.data_points_count,
     computed_at |-> entry.now]

Content(row) ==
    [avg_value |-> row.avg_value, data_points_count |-> row.data_points_count,
     computed_at |-> row.computed_at]

----------------------------------------------------------------------------
(* C5.  Key uniqueness: in every reachable state, under every interleaving of
   single-key and bulk requests of two workers, climate_averages holds at
   most one row per (region_id, metric_id, scenario_id, start_year,
   end_year), and it holds as many rows as there are keys that were put: a
   put on a key that has a row adds none. *)
C5_KeyUniqueness ==
    /\ \A r1, r2 \in climate_averages : RowKey(r1) = RowKey(r2) => r1 = r2
    /\ Cardinality(climate_averages) = Cardinality(PutKeys)

(* a key was put twice, once by each path *)
C5_Witness ==
    \E i, j \in DOMAIN put_log :
        /\ i < j /\ put_log[i].key = put_log[j].key
        /\ \E w \in Workers : resp[w].status = 200 /\ resp[w].kind = "bulk"
        /\ \E w \in Workers : resp[w].status = 200 /\ resp[w].kind = "single"
        /\ Cardinality(RowsOf(climate_averages, put_log[i].key)) = 1

----------------------------------------------------------------------------
(* C6.  Benign race: under every interleaving of two workers, for every key
   that was put, climate_averages holds exactly one row, with the content of
   the put committed last for the key; and every single-key request that got
   to its put is answered successfully. *)
C6_LastWriteWins ==
    /\ \A key \in PutKeys :
          /\ Cardinality(RowsOf(climate_averages, key)) = 1
          /\ \A row \in RowsOf(climate_averages, key) :
                Content(row) = Written(LastPut(key))
    /\ \A w \in Workers :
          (resp[w].status # 0 /\ resp[w].kind = "single" /\ resp[w].puts > 0)
          => resp[w].status = 200

(* both workers missed the same key, both computed, both put, the one whose
   transaction started first committing last, and both were answered *)
C6_Witness ==
    /\ Len(put_log) = 2
    /\ put_log[1].key = put_log[2].key
    /\ put_log[1].by # put_log[2].by
    /\ put_log[1].now > put_log[2].now
    /\ \A w \in Workers :
          /\ resp[w].status = 200 /\ resp[w].kind = "single"
          /\ resp[w].puts = 1 /\ ~resp[w].cached
          /\ ~resp[w].req.force_recompute

----------------------------------------------------------------------------
(* C7.  Atomic put: under every interleaving of puts with the reads of
   get_cached_average and get_all_cached_averages, every row of
   climate_averages, every row a bulk request holds in cached_data and every
   answer served from a cached row carries the avg_value, data_points_count
   and computed_at of one and the same put of its key. *)
WholeRow(key, content) ==
    \E i \in DOMAIN put_log : put_log[i].key = key /\ Written(put_log[i]) = content

C7_AtomicPut ==
    /\ \A row \in climate_averages : WholeRow(RowKey(row), Content(row))
    /\ \A w \in Workers :
          /\ \A g \in DOMAIN loc[w].cached_data :
                WholeRow(<<g, metric_id(req[w]), scenario_id(req[w]),
                           req[w].start_year, req[w].end_year>>,
                         loc[w].cached_data[g])
          /\ (resp[w].status = 200 /\ resp[w].kind = "single" /\ resp[w].cached)
             => \E i \in DOMAIN put_log :
                   /\ put_log[i].key = ReqKey(resp[w].req)
                   /\ resp[w].average_value =
                         Display(resp[w].req, ToFloat(Written(put_log[i]).avg_value))
                   /\ resp[w].data_points_count = put_log[i].data_points_count
                   /\ resp[w].computed_at = put_log[i].now

(* a key was put twice with different values, and a worker reads its row:
   one holds it in cached_data, or was answered from it *)
C7_Witness ==
    /\ \E i, j \in DOMAIN put_log :
          /\ put_log[i].key = put_log[j].key
          /\ put_log[i].avg_value # put_log[j].avg_value
    /\ \E w \in Workers :
          \/ DOMAIN loc[w].cached_data # {}
          \/ (resp[w].status = 200 /\ resp[w].kind = "single" /\ resp[w].cached)

----------------------------------------------------------------------------
(* C8.  Filter correctness.  Whenever the bulk handler is about to run
   compute_all_averages and its merge loop for a request without region_ids,
   then for every order in which the rows may arrive and every entry of the
   data the loop builds: the loop run in the same state, with the same cached
   rows, for the same request with region_ids = [the entry's region] builds
   exactly that one entry, with the same average_value and
   data_points_count. *)
C8_FilterCorrectness ==
    \A w \in Workers :
        (pc[w] = "bulk_compute" /\ req[w].region_ids = NoFilter)
        => LET r == req[w]
               computed_data == compute_all_averages(climate_data, metric_id(r),
                                    scenario_id(r), r.start_year, r.end_year)
               data(q, order) ==
                   merge(order, computed_data, loc[w].cached_data, q).data_points
           IN \A order \in Orders(DOMAIN computed_data) :
                \A i \in DOMAIN data(r, order) :
                   LET entry == data(r, order)[i]
                       one == [r EXCEPT !.region_ids = <<{entry.region_id}>>]
                   IN \A other \in Orders(DOMAIN computed_data) :
                        data(one, other) = <<entry>>

(* a bulk request filtered to one region was answered from the cache with one
   entry while another region has eligible samples too *)
C8_Witness ==
    \E w \in Workers :
        /\ resp[w].status = 200 /\ resp[w].kind = "bulk"
        /\ resp[w].req.region_ids # NoFilter
        /\ Len(resp[w].data) = 1 /\ resp[w].cached_count = 1
        /\ \E g \in Regions : /\ g # resp[w].data[1].region_id
                              /\ Eligible(g, resp[w].req) # {}

----------------------------------------------------------------------------
(* C9.  Bulk region universe: the regions of a successful bulk answer are,
   each once, the regions with at least one eligible sample for the metric,
   scenario and range, restricted to region_ids when it is given. *)
C9_RegionUniverse ==
    \A w \in Workers :
        (resp[w].status = 200 /\ resp[w].kind = "bulk")
        => LET r == resp[w].req
               data == resp[w].data
           IN /\ {data[i].region_id : i \in DOMAIN data} =
                    {g \in Regions : /\ Eligible(g, r) # {}
                                     /\ (r.region_ids = NoFilter \/ g \in r.region_ids[1])}
              /\ \A i, j \in DOMAIN data :
                    data[i].region_id = data[j].region_id => i = j

(* an unfiltered bulk answer leaves out a region whose samples are all
   outside the range *)
C9_Witness ==
    \E w \in Workers :
        /\ resp[w].status = 200 /\ resp[w].kind = "bulk"
        /\ resp[w].req.region_ids = NoFilter
        /\ \E cd \in climate_data :
              \A i \in DOMAIN resp[w].data : resp[w].data[i].region_id # cd.region_id

----------------------------------------------------------------------------
(* C10.  Bulk merge policy.  At the step that runs compute_all_averages and
   the merge loop, for every entry of the data it builds: if force_recompute
   is off and climate_averages holds a row for the region with the metric,
   scenario and range of the request, the entry carries that row's avg_value
   (as returned: converted when american) and data_points_count; otherwise it
   carries the mean and the number of the region's eligible samples.
   cached_count counts the entries of the first kind, computed_count those of
   the second, and cached_count is 0 under force_recompute. *)
FreshAverage(region_id, r) ==
    (SumValues(Eligible(region_id, r)) * Fine) \div Cardinality(Eligible(region_id, r))

Merged(w) ==
    IF pc'[w] = "bulk_store"
    THEN [data |-> loc'[w].data_points, cached_count |-> loc'[w].cached_count,
          computed_count |-> loc'[w].computed_count]
    ELSE IF resp'[w].status = 200
    THEN [data |-> resp'[w].data, cached_count |-> resp'[w].cached_count,
          computed_count |-> resp'[w].computed_count]
    ELSE [data |-> <<>>, cached_count |-> 0, computed_count |-> 0]

C10_MergePolicy ==
    [][\A w \in Workers :
         (pc[w] = "bulk_compute" /\ pc'[w] # pc[w])
         => LET r == req[w]
                m == Merged(w)
                stored(g) == RowsOf(climate_averages,
                                 <<g, metric_id(r), scenario_id(r),
                                   r.start_year, r.end_year>>)
                hit(g) == ~r.force_recompute /\ stored(g) # {}
            IN /\ \A i \in DOMAIN m.data :
                    LET e == m.data[i]
                    IN IF hit(e.region_id)
                       THEN \E row \in stored(e.region_id) :
                              /\ e.average_value = Display(r, ToFloat(row.avg_value))
                              /\ e.data_points_count = row.data_points_count
                       ELSE /\ e.average_value =
                                   Display(r, FreshAverage(e.region_id, r))
                            /\ e.data_points_count =
                                   Cardinality(Eligible(e.region_id, r))
               /\ m.cached_count =
                     Cardinality({i \in DOMAIN m.data : hit(m.data[i].region_id)})
               /\ m.computed_count =
                     Cardinality({i \in DOMAIN m.data : ~hit(m.data[i].region_id)})
               /\ (r.force_recompute => m.cached_count = 0)]_vars

(* an unforced bulk answer with a cached and a computed region, the cached
   value differing from the mean of the region's samples *)
C10_Witness ==
    \E w \in Workers :
        /\ resp[w].status = 200 /\ resp[w].kind = "bulk"
        /\ ~resp[w].req.force_recompute
        /\ resp[w].cached_count = 1 /\ resp[w].computed_count = 1
        /\ \E i \in DOMAIN resp[w].data :
              resp[w].data[i].average_value #
                  Display(resp[w].req, FreshAverage(resp[w].data[i].region_id, resp[w].req))

----------------------------------------------------------------------------
(* C11.  Bulk NotFound.  At the step that runs compute_all_averages and the
   merge loop: when no region has an eligible sample for the metric,
   scenario and range, or region_ids is given (the empty list included) and
   no region with an eligible sample is in it, the request ends there with
   404, it has made no put, and climate_averages is left as it is, whatever
   rows it holds. *)
Surviving(r) ==
    {g \in Regions : /\ Eligible(g, r) # {}
                     /\ (r.region_ids = NoFilter \/ g \in r.region_ids[1])}

C11_BulkNotFound ==
    [][\A w \in Workers :
         (/\ pc[w] = "bulk_compute" /\ pc'[w] # pc[w]
          /\ Surviving(req[w]) = {})
         => /\ pc'[w] = "idle"
            /\ resp'[w].status = 404
            /\ resp'[w].puts = 0
            /\ climate_averages' = climate_averages]_vars

(* a bulk request with the empty list was answered 404 although a region has
   eligible samples and climate_averages holds rows *)
C11_Witness ==
    \E w \in Workers :
        /\ resp[w].status = 404 /\ resp[w].kind = "bulk"
        /\ resp[w].detail = "region_filter"
        /\ resp[w].req.region_ids = <<{}>>
        /\ climate_averages # {}

----------------------------------------------------------------------------
(* C12.  Range validation precedes storage.  A request, single-key or bulk,
   whose start_year or end_year is outside 1991..2100 is answered 422, and
   one within the bounds with start_year > end_year is answered 400, in the
   step of its arrival: no handler step is ever taken for it, no statement
   is executed and no transaction started for it, and climate_data,
   climate_averages and the history of puts are left as they are. *)
OutOfBounds(r) ==
    \/ r.start_year < MinYear \/ r.start_year > MaxYear
    \/ r.end_year < MinYear \/ r.end_year > MaxYear

InvalidRange(r) == OutOfBounds(r) \/ r.start_year > r.end_year

C12_RangeValidation ==
    [][\A w \in Workers :
         /\ req'[w] # NoReq => ~InvalidRange(req'[w])
         /\ (/\ resp'[w] # resp[w] /\ resp'[w].status # 0
             /\ InvalidRange(resp'[w].req))
            => /\ resp'[w].status = IF OutOfBounds(resp'[w].req) THEN 422 ELSE 400
               /\ pc[w] = "idle" /\ pc'[w] = "idle"
               /\ resp'[w].puts = 0
               /\ tx' = tx /\ clock' = clock
               /\ climate_data' = climate_data
               /\ climate_averages' = climate_averages
               /\ put_log' = put_log]_vars

(* a bulk request with start_year > end_year was answered 400 while
   climate_averages holds rows *)
C12_Witness ==
    \E w \in Workers :
        /\ resp[w].status = 400 /\ resp[w].kind = "bulk"
        /\ resp[w].req.start_year > resp[w].req.end_year
        /\ climate_averages # {}

----------------------------------------------------------------------------
(* C13.  Summary correctness: a successful bulk answer to a request with
   include_summary carries one summary, whose count is the number of entries
   of data, whose min and max are the smallest and the largest average_value
   of data (the values as returned: cached or computed, converted when
   american), and whose mean is the sum of these values divided by count, to
   the resolution of a float. *)
C13_SummaryCorrect ==
    \A w \in Workers :
        (resp[w].status = 200 /\ resp[w].kind = "bulk" /\ resp[w].req.include_summary)
        => LET data == resp[w].data
               values == [i \in DOMAIN data |-> data[i].average_value]
           IN /\ Cardinality(resp[w].summary) = 1
              /\ \A sm \in resp[w].summary :
                    /\ sm.count = Len(data)
                    /\ \E i \in DOMAIN data : sm.min = values[i]
                    /\ \A i \in DOMAIN data : sm.min <= values[i]
                    /\ \E i \in DOMAIN data : sm.max = values[i]
                    /\ \A i \in DOMAIN data : sm.max >= values[i]
                    /\ sm.mean * sm.count <= SeqSum(values)
                    /\ SeqSum(values) < (sm.mean + 1) * sm.count

(* a bulk answer with a cached and a computed region whose returned values
   differ, the cached one not being the mean of the region's samples *)
C13_Witness ==
    \E w \in Workers :
        /\ resp[w].status = 200 /\ resp[w].kind = "bulk"
        /\ resp[w].req.include_summary
        /\ resp[w].cached_count = 1 /\ resp[w].computed_count = 1
        /\ \E sm \in resp[w].summary : sm.min < sm.mean /\ sm.mean < sm.max
        /\ \E i \in DOMAIN resp[w].data :
              resp[w].data[i].average_value #
                  Display(resp[w].req, FreshAverage(resp[w].data[i].region_id, resp[w].req))

----------------------------------------------------------------------------
(* C14.  Miss returns the written record: when the one worker answers a
   single-key request successfully with cached = FALSE, it has made one put,
   and the answer carries the avg_value (as returned: converted when
   american), the data_points_count and the computed_at of the row
   climate_averages holds for the key at that moment. *)
C14_MissReturnsRecord ==
    [][\A w \in Workers :
         (/\ Answers(w) /\ req[w].kind = "single"
          /\ resp'[w].status = 200 /\ ~resp'[w].cached)
         => /\ resp'[w].puts = 1
            /\ \E row \in RowsOf(climate_averages', ReqKey(req[w])) :
                  /\ resp'[w].average_value = Display(req[w], ToFloat(row.avg_value))
                  /\ resp'[w].data_points_count = row.data_points_count
                  /\ resp'[w].computed_at = row.computed_at]_vars

----------------------------------------------------------------------------
(* C15.  Overwrite only on force, as claimed: under every interleaving, a
   step that changes or removes a row of climate_averages is the put of a
   request with force_recompute whose key has an eligible sample. *)
Overwrites == \E row \in climate_averages : row \notin climate_averages'

(* the step is a put of worker w *)
PutBy(w) ==
    /\ Len(put_log') = Len(put_log) + 1
    /\ put_log'[Len(put_log')].by = w
    /\ pc[w] \in {"single_store", "bulk_store"}

C15_OverwriteOnlyOnForce ==
    [][Overwrites
       => \E w \in Workers :
             /\ PutBy(w)
             /\ req[w].force_recompute
             /\ Eligible(put_log'[Len(put_log')].key[1], req[w]) # {}]_vars

(* C15, amended: under every interleaving, a step that changes or removes a
   row of climate_averages is the put of a request whose key has an eligible
   sample, and the request either has force_recompute, or did not find the
   row: a single-key request without force_recompute puts only when
   climate_averages held no row for its key at its arrival, a bulk request
   without force_recompute puts only for regions that get_all_cached_averages
   did not return to it, so that the row it overwrites was put by another
   request in between.  A request served from the cached row changes
   nothing. *)
C15_OverwriteOnForceOrRace ==
    [][/\ Overwrites
          => \E w \in Workers :
                LET key == put_log'[Len(put_log')].key
                IN /\ PutBy(w)
                   /\ Eligible(key[1], req[w]) # {}
                   /\ \/ req[w].force_recompute
                      \/ /\ req[w].kind = "single"
                         /\ loc[w].at_before = 0
                         /\ \E i \in DOMAIN put_log :
                               put_log[i].key = key /\ put_log[i].by # w
                      \/ /\ req[w].kind = "bulk"
                         /\ key[1] \notin DOMAIN loc[w].cached_data
                         /\ \E i \in DOMAIN put_log :
                               put_log[i].key = key /\ put_log[i].by # w
       /\ \A w \in Workers :
             (Answers(w) /\ resp'[w].status = 200 /\ resp'[w].puts = 0)
             => climate_averages' = climate_averages]_vars

(* two requests without force_recompute put the same key, the second put
   replacing the value of the first *)
C15_Witness ==
    /\ Len(put_log) = 2
    /\ put_log[1].key = put_log[2].key
    /\ ToNumeric(put_log[1].avg_value) # ToNumeric(put_log[2].avg_value)
    /\ \A w \in Workers :
          /\ resp[w].status = 200 /\ ~resp[w].req.force_recompute
          /\ resp[w].puts = 1

----------------------------------------------------------------------------
(* C16.  Region-universe freshness.  For a bulk request without
   force_recompute, at the step that runs compute_all_averages and the merge
   loop: the entries built are those of the regions that have an eligible
   sample now and pass region_ids, whether or not get_all_cached_averages
   returned a row for them; the regions it returned a row for are counted in
   cached_count, the others (a region that got its first sample since the
   others were cached among them) in computed_count, and exactly these others
   are queued for the store.  When the request is answered successfully,
   climate_averages holds a row for every region of the answer. *)
C16_Freshness ==
    [][\A w \in Workers :
         /\ (/\ pc[w] = "bulk_compute" /\ pc'[w] # pc[w]
             /\ ~req[w].force_recompute /\ Surviving(req[w]) # {})
            => LET m == Merged(w)
                   fresh == Surviving(req[w]) \ DOMAIN loc[w].cached_data
                   warm == Surviving(req[w]) \cap DOMAIN loc[w].cached_data
               IN /\ {m.data[i].region_id : i \in DOMAIN m.data} = Surviving(req[w])
                  /\ m.computed_count = Cardinality(fresh)
                  /\ m.cached_count = Cardinality(warm)
                  /\ fresh # {}
                     => /\ pc'[w] = "bulk_store"
                        /\ {loc'[w].regions_to_cache[i][1] :
                               i \in DOMAIN loc'[w].regions_to_cache} = fresh
         /\ (/\ Answers(w) /\ req[w].kind = "bulk" /\ ~req[w].force_recompute
             /\ resp'[w].status = 200)
            => \A i \in DOMAIN resp'[w].data :
                  RowsOf(climate_averages',
                         <<resp'[w].data[i].region_id, metric_id(req[w]),
                           scenario_id(req[w]), req[w].start_year,
                           req[w].end_year>>) # {}]_vars

(* region 1 was cached by an earlier request; region 2 then got its first
   sample, and an unfiltered request without force_recompute answered with
   region 1 from the cache and region 2 computed and stored *)
C16_Witness ==
    \E w \in Workers :
        /\ resp[w].status = 200 /\ resp[w].kind = "bulk"
        /\ ~resp[w].req.force_recompute /\ resp[w].req.region_ids = NoFilter
        /\ resp[w].cached_count = 1 /\ resp[w].computed_count = 1
        /\ resp[w].puts = 1
        /\ Len(put_log) = 2
        /\ put_log[1].key[1] = 1 /\ put_log[2].key[1] = 2
        /\ RowsOf(climate_averages, put_log[2].key) # {}

----------------------------------------------------------------------------
(* C17.  Storage failures propagate without retry.  A step in which a
   statement of a request fails ends the request with 500: the handler takes
   no further step for it, and the failed statement has changed neither
   table.  Every step of a handler moves it forward: to a later statement or
   to the answer, or, in the store loop of the bulk handler, to the next
   queued region, the queued regions being distinct; so that no statement is
   issued twice for a request, and a single-key request makes at most one
   put. *)
Rank(p) ==
    CASE p \in {"single_cached", "bulk_cached"} -> 1
      [] p \in {"single_compute", "bulk_compute"} -> 2
      [] p \in {"single_store", "bulk_store"} -> 3
      [] p = "single_stamp" -> 4
      [] OTHER -> 5

C17_NoRetry ==
    [][\A w \in Workers :
         /\ (/\ pc[w] # "idle" /\ resp'[w] # resp[w]
             /\ resp'[w].status = 500 /\ resp'[w].detail = "storage")
            => /\ pc'[w] = "idle" /\ req'[w] = NoReq /\ tx'[w] = 0
               /\ climate_averages' = climate_averages
               /\ climate_data' = climate_data
               /\ put_log' = put_log
         /\ (pc[w] # "idle" /\ <<pc'[w], loc'[w], resp'[w]>> # <<pc[w], loc[w], resp[w]>>)
            => \/ Rank(pc'[w]) > Rank(pc[w])
               \/ /\ pc[w] = "bulk_store" /\ pc'[w] = "bulk_store"
                  /\ loc'[w].regions_to_cache = Tail(loc[w].regions_to_cache)
                  /\ loc'[w].puts = loc[w].puts + 1
         /\ \A i, j \in DOMAIN loc[w].regions_to_cache :
               loc[w].regions_to_cache[i][1] = loc[w].regions_to_cache[j][1] => i = j
         /\ (resp'[w].status # 0 /\ resp'[w].kind = "single") => resp'[w].puts <= 1]_vars

(* the second put of a bulk request failed after the first was committed:
   the request was answered 500 and one of its two regions has a row *)
C17_Witness ==
    \E w \in Workers :
        /\ resp[w].status = 500 /\ resp[w].detail = "storage"
        /\ resp[w].kind = "bulk" /\ resp[w].puts = 1
        /\ Cardinality(climate_averages) = 1

----------------------------------------------------------------------------
(* C18.  Bounded startup retry, as claimed: cache.refresh is attempted at
   most max_retries = 10 times; another attempt follows only an attempt that
   raised OperationalError; after the first attempt that succeeds the
   process serves, with cache.metrics and cache.scenarios loaded; the
   startup raises only after the 10th attempt in a row raised
   OperationalError; no request is handled unless the process serves; and
   the startup ends, serving or raised. *)
StartupSafe ==
    /\ startup.attempt <= max_retries
    /\ startup.state = "sleeping" => startup.error = "operational"
    /\ startup.state = "serving" => startup.metrics /\ startup.scenarios
    /\ \A w \in Workers :
          (pc[w] # "idle" \/ resp[w].status # 0)
          => /\ startup.state = "serving"
             /\ startup.metrics /\ startup.scenarios

StartupSteps ==
    [][startup' # startup
       => /\ startup.state \in {"starting", "sleeping"}
          /\ startup'.attempt = startup.attempt + 1
          /\ startup.state = "sleeping" => startup.error = "operational"]_vars

StartupEnds == <>(startup.state \in {"serving", "failed"})

C18_BoundedRetry ==
    /\ [](/\ StartupSafe
          /\ startup.state = "failed"
             => startup.attempt = max_retries /\ startup.error = "operational")
    /\ StartupSteps
    /\ StartupEnds

(* C18, amended: as above, but the startup raises in two cases: after the
   10th attempt in a row raised OperationalError, and at once, without
   another attempt, when an attempt raises any other exception. *)
C18_BoundedRetryOrRaise ==
    /\ [](/\ StartupSafe
          /\ startup.state = "failed"
             => \/ startup.attempt = max_retries /\ startup.error = "operational"
                \/ startup.error = "other")
    /\ StartupSteps
    /\ StartupEnds

(* the 10th attempt succeeded after nine that raised OperationalError, the
   last sleep being the longest, and a request was answered *)
C18_Witness ==
    /\ startup.state = "serving" /\ startup.attempt = max_retries
    /\ startup.retry_delay = MaxDelay
    /\ \E w \in Workers : resp[w].status = 200

----------------------------------------------------------------------------
(* C19.  Bulk persistence post-state: when the one worker answers a bulk
   request successfully, the request has made as many puts as computed_count
   says, and for every entry of the answer that was computed (the region was
   not returned by get_all_cached_averages, or force_recompute is on)
   climate_averages holds a row for the region and the metric, scenario and
   range of the request, whose avg_value (as returned: converted when
   american) and data_points_count are those of the entry. *)
C19_BulkPersistence ==
    [][\A w \in Workers :
         (/\ Answers(w) /\ req[w].kind = "bulk" /\ resp'[w].status = 200)
         => /\ resp'[w].puts = resp'[w].computed_count
            /\ \A i \in DOMAIN resp'[w].data :
                  LET entry == resp'[w].data[i]
                      rows == RowsOf(climate_averages',
                                     <<entry.region_id, metric_id(req[w]),
                                       scenario_id(req[w]), req[w].start_year,
                                       req[w].end_year>>)
                  IN /\ rows # {}
                     /\ (req[w].force_recompute
                         \/ entry.region_id \notin DOMAIN loc[w].cached_data)
                        => \A row \in rows :
                              /\ Display(req[w], ToFloat(row.avg_value)) =
                                    entry.average_value
                              /\ row.data_points_count = entry.data_points_count]_vars

----------------------------------------------------------------------------
(* C20.  Bulk write frame: every row of climate_averages that a step of a
   bulk request adds, changes or removes has the metric, scenario,
   start_year and end_year of the request and a region that passes
   region_ids and that, unless force_recompute is on,
   get_all_cached_averages did not return to the request.  The rows of the
   regions served from the cache, of the regions the filter excludes and of
   other metrics, scenarios or ranges are left as they are. *)
C20_BulkWriteFrame ==
    [][\A w \in Workers :
         (/\ req[w].kind = "bulk"
          /\ <<pc'[w], loc'[w], resp'[w]>> # <<pc[w], loc[w], resp[w]>>)
         => LET r == req[w]
                changed == {row \in climate_averages : row \notin climate_averages'}
                           \cup {row \in climate_averages' : row \notin climate_averages}
            IN \A row \in changed :
                  /\ RowKey(row) = <<row.region_id, metric_id(r), scenario_id(r),
                                     r.start_year, r.end_year>>
                  /\ r.region_ids = NoFilter \/ row.region_id \in r.region_ids[1]
                  /\ r.force_recompute \/ row.region_id \notin DOMAIN loc[w].cached_data]_vars

(* a forced bulk request filtered to region 1 was answered after one put,
   while climate_averages holds the older row of region 2 for the same
   range: region 2 was computed again and its row left alone *)
C20_Witness ==
    \E w \in Workers :
        /\ resp[w].status = 200 /\ resp[w].kind = "bulk"
        /\ resp[w].req.force_recompute /\ resp[w].req.region_ids = <<{1}>>
        /\ resp[w].puts = 1
        /\ Eligible(2, resp[w].req) # {}
        /\ \E old, new \in climate_averages :
              /\ old.region_id = 2 /\ new.region_id = 1
              /\ old.start_year = resp[w].req.start_year
              /\ old.end_year = resp[w].req.end_year
              /\ new.start_year = old.start_year /\ new.end_year = old.end_year
              /\ old.computed_at < new.computed_at

----------------------------------------------------------------------------
(* C21.  Single/bulk compute agreement: in every state of climate_data, for
   every region and every metric, scenario and range a request can name,
   compute_average returns None exactly when the region is not a key of
   compute_all_averages, and otherwise returns the pair compute_all_averages
   maps the region to, which is the mean and the number of the region's
   samples with a year of the range and a value. *)
C21_ComputeAgreement ==
    \A g \in Regions, t \in GoodTargets :
        LET r == SingleReq(g, t[1], t[2], t[3], t[4], FALSE, FALSE)
            one == compute_average(climate_data, g, metric_id(r), scenario_id(r),
                                   r.start_year, r.end_year)
            all == compute_all_averages(climate_data, metric_id(r), scenario_id(r),
                                        r.start_year, r.end_year)
        IN /\ one = {} <=> g \notin DOMAIN all
           /\ one = {} <=> Eligible(g, r) = {}
           /\ g \in DOMAIN all
              => /\ one = {all[g]}
                 /\ all[g] = <<FreshAverage(g, r), Cardinality(Eligible(g, r))>>

(* compute_average has returned the mean of two different samples of a
   region to a single-key request, while the other region has samples of
   another mean in the range *)
C21_Witness ==
    \E w \in Workers :
        /\ pc[w] = "single_store"
        /\ \E x \in loc[w].result : x[2] = 2 /\ x[1] * 2 = Fine
        /\ \E g \in Regions :
              /\ g # req[w].region_id
              /\ Eligible(g, req[w]) # {}
              /\ FreshAverage(g, req[w]) # FreshAverage(req[w].region_id, req[w])

----------------------------------------------------------------------------
(* C22.  Stored records are well-formed: under every interleaving of
   single-key and bulk requests of two workers with the seeder, every row of
   climate_averages has a number for avg_value and a data_points_count of at
   least 1 and of at most the number of eligible samples of its key (samples
   are never deleted); every put that was committed, every pair
   compute_average handed to the put of a single-key request and every
   region queued by a bulk request has a data_points_count of at least 1;
   and a key without eligible samples has no row. *)
EligibleOfKey(key) ==
    {cd \in climate_data : /\ cd.region_id = key[1]
                           /\ cd.metric_id = key[2]
                           /\ cd.scenario_id = key[3]
                           /\ cd.year \in key[4]..key[5]
                           /\ cd.value # NULL}

C22_WellFormed ==
    /\ \A row \in climate_averages :
          /\ row.avg_value \in Nat
          /\ row.data_points_count >= 1
          /\ row.data_points_count <= Cardinality(EligibleOfKey(RowKey(row)))
    /\ \A i \in DOMAIN put_log :
          /\ put_log[i].data_points_count >= 1
          /\ EligibleOfKey(put_log[i].key) # {}
    /\ \A w \in Workers :
          /\ \A x \in loc[w].result : x[2] >= 1
          /\ \A i \in DOMAIN loc[w].regions_to_cache :
                loc[w].regions_to_cache[i][3] >= 1

(* a single-key request for region 2, which has no sample, was answered 404
   and a bulk request was answered after a put, and climate_averages holds
   rows, none of them for region 2 *)
C22_Witness ==
    /\ \E w \in Workers :
          /\ resp[w].status = 404 /\ resp[w].detail = "no_data"
          /\ resp[w].kind = "single" /\ resp[w].req.region_id = 2
    /\ \E w \in Workers :
          resp[w].status = 200 /\ resp[w].kind = "bulk" /\ resp[w].puts = 1
    /\ climate_averages # {}
    /\ \A row \in climate_averages : row.region_id # 2

----------------------------------------------------------------------------
(* C23.  Schema creation is re-runnable: a run of create_tables on a
   database on which create_tables has already run (it holds the four tables
   and all the indexes) returns without error, and leaves the four tables
   and all the indexes present. *)
C23_Rerunnable ==
    [][(seeder = "created" /\ relations = AllRelations /\ seeder' # seeder)
       => /\ seeder' = "created"
          /\ relations' = AllRelations]_vars

----------------------------------------------------------------------------
(* C24.  The cache is never invalidated by data changes.  With one worker
   and the seeder: a step that changes climate_data leaves climate_averages
   as it is; a row of climate_averages is changed only by the put of a
   request with force_recompute; a single-key request without
   force_recompute whose key had a row at its arrival is answered from that
   row, with its avg_value and data_points_count, cached = TRUE and no put,
   whatever the samples of the key are now; and in the answer of a bulk request without
   force_recompute, every region get_all_cached_averages returned a row for
   carries the avg_value and data_points_count of that row, which the
   request leaves as it is. *)
C24_NoInvalidation ==
    [][/\ climate_data' # climate_data => climate_averages' = climate_averages
       /\ Overwrites => \E w \in Workers : PutBy(w) /\ req[w].force_recompute
       /\ \A w \in Workers :
             /\ (/\ Answers(w) /\ req[w].kind = "single" /\ ~req[w].force_recompute
                 /\ loc[w].at_before # 0)
                => /\ resp'[w].status = 200 /\ resp'[w].cached /\ resp'[w].puts = 0
                   /\ RowsOf(climate_averages, ReqKey(req[w])) # {}
                   /\ climate_averages' = climate_averages
                   /\ \A row \in RowsOf(climate_averages, ReqKey(req[w])) :
                         /\ resp'[w].average_value = Display(req[w], ToFloat(row.avg_value))
                         /\ resp'[w].data_points_count = row.data_points_count
             /\ (/\ Answers(w) /\ req[w].kind = "bulk" /\ ~req[w].force_recompute
                 /\ resp'[w].status = 200)
                => \A i \in DOMAIN resp'[w].data :
                      LET entry == resp'[w].data[i]
                          rows == RowsOf(climate_averages,
                                         <<entry.region_id, metric_id(req[w]),
                                           scenario_id(req[w]), req[w].start_year,
                                           req[w].end_year>>)
                      IN entry.region_id \in DOMAIN loc[w].cached_data
                         => /\ rows # {}
                            /\ \A row \in rows :
                                  /\ row \in climate_averages'
                                  /\ entry.average_value =
                                        Display(req[w], ToFloat(row.avg_value))
                                  /\ entry.data_points_count = row.data_points_count]_vars

(* a single-key request without force_recompute was answered from a row
   whose data_points_count is no longer the number of eligible samples of
   the key: a sample was loaded after the row was written *)
C24_Witness ==
    \E w \in Workers :
        /\ resp[w].status = 200 /\ resp[w].kind = "single"
        /\ ~resp[w].req.force_recompute /\ resp[w].cached
        /\ resp[w].data_points_count # Cardinality(Eligible(1, resp[w].req))
        /\ \E row \in RowsOf(climate_averages, ReqKey(resp[w].req)) :
              row.data_points_count = resp[w].data_points_count

----------------------------------------------------------------------------
(* C25.  Response consistency under concurrency: under every interleaving of
   two workers and the seeder, the average_value (as returned: converted
   when american), the data_points_count and the computed_at of a successful
   single-key answer with cached = FALSE are the value, the count and the
   timestamp of one and the same put committed for the key. *)
C25_ResponseConsistency ==
    \A w \in Workers :
        (resp[w].status = 200 /\ resp[w].kind = "single" /\ ~resp[w].cached)
        => \E i \in DOMAIN put_log :
              /\ put_log[i].key = ReqKey(resp[w].req)
              /\ Display(resp[w].req, put_log[i].avg_value) = resp[w].average_value
              /\ put_log[i].data_points_count = resp[w].data_points_count
              /\ put_log[i].now = resp[w].computed_at

----------------------------------------------------------------------------
(* C26.  Bulk persistence is per region.  Every step of the store loop of a
   bulk request puts the region at the head of the queue, in one statement
   that is committed in the step, and goes on with the rest of the queue.
   When the put of the k-th queued region fails, the request ends with 500
   and no response body; the step changes neither climate_averages nor the
   history of puts: the k-1 puts the request has committed are the last of
   the history and their rows are in climate_averages with the content
   written, and no region still queued was put by the request. *)
C26_PerRegionPersistence ==
    [][\A w \in Workers :
         /\ (pc[w] = "bulk_store" /\ put_log' # put_log)
            => LET last == put_log'[Len(put_log')]
               IN /\ Len(put_log') = Len(put_log) + 1
                  /\ last.by = w
                  /\ last.key[1] = Head(loc[w].regions_to_cache)[1]
                  /\ tx'[w] = 0
                  /\ \A row \in RowsOf(climate_averages', last.key) :
                        Content(row) = Written(last)
                  /\ RowsOf(climate_averages', last.key) # {}
                  /\ pc'[w] = "bulk_store"
                     => loc'[w].regions_to_cache = Tail(loc[w].regions_to_cache)
                  /\ pc'[w] # "bulk_store" => Tail(loc[w].regions_to_cache) = <<>>
         /\ (pc[w] = "bulk_store" /\ resp'[w] # resp[w] /\ resp'[w].status = 500)
            => LET done == (Len(put_log) - loc[w].puts + 1)..Len(put_log)
                   queue == loc[w].regions_to_cache
               IN /\ pc'[w] = "idle" /\ req'[w] = NoReq
                  /\ climate_averages' = climate_averages
                  /\ put_log' = put_log
                  /\ resp'[w].puts = loc[w].puts
                  /\ loc[w].puts + Len(queue) = loc[w].computed_count
                  /\ \A i \in done :
                        /\ put_log[i].by = w
                        /\ \E row \in RowsOf(climate_averages', put_log[i].key) :
                              Content(row) = Written(put_log[i])
                        /\ \A j \in DOMAIN queue : queue[j][1] # put_log[i].key[1]]_vars

(* the put of the second queued region of a bulk request failed: the request
   was answered 500, the row of the first region is the only put of the
   history and is in climate_averages, and the other region, which has
   samples, has no row *)
C26_Witness ==
    \E w \in Workers :
        /\ resp[w].status = 500 /\ resp[w].detail = "storage"
        /\ resp[w].kind = "bulk" /\ resp[w].puts = 1
        /\ Len(put_log) = 1 /\ put_log[1].by = w
        /\ RowsOf(climate_averages, put_log[1].key) # {}
        /\ \E g \in Regions :
              /\ g # put_log[1].key[1]
              /\ Eligible(g, resp[w].req) # {}
              /\ \A row \in climate_averages : row.region_id # g

----------------------------------------------------------------------------
(* C27.  Warm-cache follow-up.  When the one worker handles a bulk request
   that repeats, without force_recompute, the metric, scenario, range and
   region_ids of the bulk request it answered successfully just before
   (forced or not), climate_data and climate_averages being as that request
   left them: the request never gets to the store loop, and it is answered
   successfully with the regions of the previous answer, computed_count = 0,
   cached_count the number of its regions, and no put. *)
C27_WarmFollowUp ==
    [][\A w \in Workers :
         (/\ req[w].kind = "bulk" /\ resp[w].status = 200 /\ resp[w].kind = "bulk"
          /\ Len(put_log) = resp[w].seen)
         => /\ pc'[w] # "bulk_store"
            /\ put_log' = put_log
            /\ climate_averages' = climate_averages
            /\ Answers(w)
               => /\ resp'[w].status = 200
                  /\ {resp'[w].data[i].region_id : i \in DOMAIN resp'[w].data} =
                        {resp[w].data[i].region_id : i \in DOMAIN resp[w].data}
                  /\ resp'[w].computed_count = 0
                  /\ resp'[w].cached_count = Len(resp'[w].data)
                  /\ resp'[w].puts = 0]_vars

(* the follow-up of a bulk request that had computed and put a region was
   answered from the cache, while another region has samples that the
   filter excludes *)
C27_Witness ==
    \E w \in Workers :
        /\ resp[w].status = 200 /\ resp[w].kind = "bulk"
        /\ ~resp[w].req.force_recompute /\ resp[w].req.region_ids = <<{1}>>
        /\ resp[w].computed_count = 0 /\ resp[w].cached_count = 1
        /\ resp[w].puts = 0
        /\ Len(put_log) = 1 /\ resp[w].seen = 1
        /\ Eligible(2, resp[w].req) # {}

----------------------------------------------------------------------------
(* C28.  The two paths share one cache.  With the single-key requests on one
   worker and the bulk requests on another, one request at a time: a bulk
   request without force_recompute gives every region of its answer whose
   row was last put by the single-key path the avg_value (as returned:
   converted when american) and data_points_count of that row, counts it in
   cached_count and does not queue it; and a single-key request without
   force_recompute whose key was last put by the bulk path is answered from
   that row with cached = TRUE, its avg_value, data_points_count and
   computed_at, and without a put. *)
C28_SharedCache ==
    [][/\ (/\ pc[BulkPath] = "bulk_compute" /\ pc'[BulkPath] # "bulk_compute"
           /\ ~req[BulkPath].force_recompute)
          => LET r == req[BulkPath]
                 m == Merged(BulkPath)
                 key(g) == <<g, metric_id(r), scenario_id(r), r.start_year, r.end_year>>
                 shared == {g \in Surviving(r) :
                               key(g) \in PutKeys /\ LastPut(key(g)).by = SinglePath}
             IN /\ \A g \in shared :
                      /\ \E i \in DOMAIN m.data :
                            /\ m.data[i].region_id = g
                            /\ m.data[i].average_value =
                                  Display(r, ToFloat(Written(LastPut(key(g))).avg_value))
                            /\ m.data[i].data_points_count =
                                  LastPut(key(g)).data_points_count
                      /\ \A i \in DOMAIN loc'[BulkPath].regions_to_cache :
                            loc'[BulkPath].regions_to_cache[i][1] # g
                /\ m.cached_count >= Cardinality(shared)
       /\ (/\ pc[SinglePath] = "single_cached" /\ pc'[SinglePath] # "single_cached"
           /\ ReqKey(req[SinglePath]) \in PutKeys
           /\ LastPut(ReqKey(req[SinglePath])).by = BulkPath)
          => LET r == req[SinglePath]
                 put == LastPut(ReqKey(r))
                 answer == resp'[SinglePath]
             IN /\ pc'[SinglePath] = "idle"
                /\ answer.status = 200 /\ answer.cached /\ answer.puts = 0
                /\ answer.average_value = Display(r, ToFloat(Written(put).avg_value))
                /\ answer.data_points_count = put.data_points_count
                /\ answer.computed_at = put.now
                /\ climate_averages' = climate_averages]_vars

(* a bulk request without force_recompute was answered with one region from
   the row the single-key path had put and the other region computed and
   put by itself *)
C28_Witness ==
    /\ resp[BulkPath].status = 200 /\ resp[BulkPath].kind = "bulk"
    /\ ~resp[BulkPath].req.force_recompute
    /\ resp[BulkPath].cached_count = 1 /\ resp[BulkPath].computed_count = 1
    /\ Len(put_log) = 2
    /\ put_log[1].by = SinglePath /\ put_log[2].by = BulkPath
    /\ resp[SinglePath].status = 200 /\ ~resp[SinglePath].cached

----------------------------------------------------------------------------
(* C29.  The unit-conversion flag does not reach the store.  Every put, of
   the single-key and of the bulk path, with american or without, writes the
   mean of the eligible samples of its key in the unit of the metric and
   their number, and leaves climate_averages as store_computed_average
   leaves it for these arguments, none of which depends on american; every
   row holds that mean to four decimals.  Every value returned, from a
   cached row or freshly computed, is the native value when american is off
   and convert_to_american_units of the native value when it is on. *)
NativeAverage(key) ==
    (SumValues(EligibleOfKey(key)) * Fine) \div Cardinality(EligibleOfKey(key))

Returned(r, native) ==
    IF r.american THEN convert_to_american_units(native, Metrics[r.metric_code].unit)
    ELSE native

C29_FlagNotStored ==
    [][/\ \A row \in climate_averages' :
             row.avg_value = ToNumeric(NativeAverage(RowKey(row)))
       /\ \A w \in Workers :
             /\ PutBy(w)
                => LET e == put_log'[Len(put_log')]
                   IN /\ e.avg_value = NativeAverage(e.key)
                      /\ e.data_points_count = Cardinality(EligibleOfKey(e.key))
                      /\ climate_averages' =
                            store_computed_average(climate_averages, e.key[1], e.key[2],
                                e.key[3], e.key[4], e.key[5], NativeAverage(e.key),
                                Cardinality(EligibleOfKey(e.key)), e.now)
             /\ (Answers(w) /\ req[w].kind = "single" /\ resp'[w].status = 200)
                => resp'[w].average_value =
                      Returned(req[w],
                               IF resp'[w].cached
                               THEN ToFloat(ToNumeric(NativeAverage(ReqKey(req[w]))))
                               ELSE NativeAverage(ReqKey(req[w])))
             /\ (Answers(w) /\ req[w].kind = "bulk" /\ resp'[w].status = 200)
                => \A i \in DOMAIN resp'[w].data :
                      LET entry == resp'[w].data[i]
                          key == <<entry.region_id, metric_id(req[w]), scenario_id(req[w]),
                                   req[w].start_year, req[w].end_year>>
                      IN entry.average_value =
                            Returned(req[w],
                                     IF /\ ~req[w].force_recompute
                                        /\ entry.region_id \in DOMAIN loc[w].cached_data
                                     THEN ToFloat(ToNumeric(NativeAverage(key)))
                                     ELSE NativeAverage(key))]_vars

(* a bulk request with american was answered in Fahrenheit after putting a
   region, the row it wrote holding the value in Celsius, and a single-key
   request with american was answered from a row *)
C29_Witness ==
    /\ resp[BulkPath].status = 200 /\ resp[BulkPath].kind = "bulk"
    /\ resp[BulkPath].req.american /\ resp[BulkPath].puts >= 1
    /\ \E i \in DOMAIN resp[BulkPath].data :
          \E row \in climate_averages :
             /\ row.region_id = resp[BulkPath].data[i].region_id
             /\ row.computed_at = put_log[Len(put_log)].now
             /\ put_log[Len(put_log)].by = BulkPath
             /\ put_log[Len(put_log)].key = RowKey(row)
             /\ resp[BulkPath].data[i].average_value =
                   celsius_to_fahrenheit(ToFloat(row.avg_value))
             /\ resp[BulkPath].data[i].average_value # ToFloat(row.avg_value)
    /\ resp[SinglePath].status = 200 /\ resp[SinglePath].req.american
    /\ resp[SinglePath].cached

----------------------------------------------------------------------------
(* C30.  The refresh of the reference catalog is all-or-nothing: after every
   attempt cache.metrics and cache.scenarios come from the same refresh
   (both loaded or neither), and an attempt that raises, at the connect or
   at either query, leaves cache.metrics, cache.scenarios and
   cache.last_refresh as they were before it. *)
C30_RefreshAllOrNothing ==
    [][startup' # startup
       => /\ startup'.metrics = startup'.scenarios
          /\ startup'.error # "none"
             => /\ startup'.metrics = startup.metrics
                /\ startup'.scenarios = startup.scenarios
                /\ startup'.last_refresh = startup.last_refresh]_vars

====
